---- MODULE Spec2Model ----
(***************************************************************************)
(* Model of the GitHub project-board gateway:                              *)
(*   src/src/github/operations/projects.ts  (operation functions, the      *)
(*        GraphQL helper, the input and output schemas)                    *)
(*   src/src/github/README.md               (the CallToolRequestSchema     *)
(*        handler that parses the arguments and calls the operations)      *)
(*                                                                         *)
(* One invocation runs as a sequence of steps.  A step is what the code    *)
(* does between two awaits: Invoke/Call run from the entry of the handler  *)
(* or of an operation function to the first awaited request (or to the     *)
(* end), Receive runs from the arrival of the awaited response to the next *)
(* awaited request (or to the end).  The remote system answers each        *)
(* request with any response of a bounded universe.                        *)
(***************************************************************************)
EXTENDS Naturals, Sequences, FiniteSets, TLC

VARIABLES
    pc,       \* "idle" | "await" (a request is in flight) | "done"
    call,     \* the invocation: [via, name, args]
    sent,     \* the requests this invocation has sent, in order
    answered, \* how many of the requests sent have been answered
    resp,     \* the last response received (NoResponse before the first)
    locals,   \* local variables of the operation function that live across awaits
    outcome,  \* what the invocation hands to its caller
    other,    \* a second invocation, suspended at an await while this one runs
    walk,     \* a caller paging through a remote collection: what it has seen so far
    remote    \* the boards the remote system holds: its projects, in listing order, and columns

vars == <<pc, call, sent, answered, resp, locals, outcome, other, walk, remote>>

----------------------------------------------------------------------------
(* Bounds of the model *)

MaxErrors == 2      \* longest errors list of a GraphQL response
MaxProjects == 2    \* longest array of a resource response
MaxNumber == 2      \* project numbers range over 1..MaxNumber
MaxBad == 2         \* most argument fields of one call that deviate from a nominal value
MaxItems == 3       \* most items of a remote collection a caller pages through
DefaultPage == 1    \* projects on a listing page when the request names no page size

----------------------------------------------------------------------------
(* JavaScript values *)

JsUndef == [t |-> "undefined"]
JsNull == [t |-> "null"]
JsStr(s) == [t |-> "string", s |-> s]
JsNum(n) == [t |-> "number", n |-> n]
JsBool(b) == [t |-> "boolean", b |-> b]

\* the identifier strings the remote system may hand out ("" is the empty string)
Undefined == "<undefined>"
IdVals == {Undefined, "", "N1"}

----------------------------------------------------------------------------
(* Responses of the query-language endpoint *)

\* an entity inside data: absent, null, or an object with an id (or without
\* one) that does or does not conform to the output schema applied to it
NoEnt == [k |-> "undefined", id |-> Undefined, ok |-> FALSE]
NullEnt == [k |-> "null", id |-> Undefined, ok |-> FALSE]
Ents ==
    {NoEnt, NullEnt} \cup
    {e \in [k : {"object"}, id : IdVals, ok : BOOLEAN] : e.ok => e.id # Undefined}

\* data: absent, null, an array, or an object {top: {..., inner: {...}}}
DataVals ==
    [k : {"undefined", "null", "array"}, top : {NoEnt}, inner : {NoEnt}] \cup
    {d \in [k : {"object"}, top : Ents, inner : Ents] :
        d.top.k # "object" => d.inner = NoEnt}

ErrorMessages == {"boom", "GraphQL query returned null data. Check query validity and permissions."}
\* one element of errors: with a string message, or without one
ErrorItems == [hasMessage : {TRUE}, message : ErrorMessages] \cup
              [hasMessage : {FALSE}, message : {""}]

RECURSIVE SeqsUpTo(_, _)
SeqsUpTo(S, n) ==
    IF n = 0 THEN {<<>>}
    ELSE LET shorter == SeqsUpTo(S, n - 1)
         IN  shorter \cup {Append(s, x) : s \in {t \in shorter : Len(t) = n - 1}, x \in S}

ErrVals ==
    [k : {"undefined", "null"}, list : {<<>>}] \cup
    [k : {"list"}, list : SeqsUpTo(ErrorItems, MaxErrors)]

GqlBodies ==
    [shape : {"string"}, data : {[k |-> "undefined", top |-> NoEnt, inner |-> NoEnt]},
     errors : {[k |-> "undefined", list |-> <<>>]}] \cup
    [shape : {"object"}, data : DataVals, errors : ErrVals]

FailStatuses == {401, 403, 404, 409, 422, 429, 500}

GqlResponses ==
    [transport : {"graphql"}, status : {200}, body : GqlBodies] \cup
    [transport : {"graphql"}, status : FailStatuses, body : {[shape |-> "string",
                 data |-> [k |-> "undefined", top |-> NoEnt, inner |-> NoEnt],
                 errors |-> [k |-> "undefined", list |-> <<>>]]}]

NoResponse == [transport |-> "none"]

----------------------------------------------------------------------------
(* Completions: how a call ends *)

NoValue == NoEnt
Return(v) == [type |-> "return", class |-> "", message |-> "", value |-> v]
Throw(c, m) == [type |-> "throw", class |-> c, message |-> m, value |-> NoValue]
NoOutcome == [type |-> "none", class |-> "", message |-> "", value |-> NoValue]

----------------------------------------------------------------------------
(* The transport: githubRequest of common/utils.js and the error classes of *)
(* common/errors.js, which the handler imports                              *)

ErrorClassOfStatus(status) ==
    CASE status = 401 -> "GitHubAuthenticationError"
      [] status = 403 -> "GitHubPermissionError"
      [] status = 404 -> "GitHubResourceNotFoundError"
      [] status = 409 -> "GitHubConflictError"
      [] status = 422 -> "GitHubValidationError"
      [] status = 429 -> "GitHubRateLimitError"
      [] OTHER -> "GitHubError"

GitHubErrorClasses ==
    {"GitHubAuthenticationError", "GitHubPermissionError", "GitHubResourceNotFoundError",
     "GitHubConflictError", "GitHubValidationError", "GitHubRateLimitError", "GitHubError"}

\* performs the call: the parsed body of a 2xx response, or a throw that keeps the status
githubRequest(r) ==
    IF r.status = 200
    THEN Return(r.body)
    ELSE Throw(ErrorClassOfStatus(r.status), "status " \o ToString(r.status))

----------------------------------------------------------------------------
(* The GraphQL helper *)

\* GraphQLErrorSchema: message is a required string, the rest is optional
GraphQLErrorSchema(item) == item.hasMessage

\* GraphQLResponseSchema.safeParse(response).success
\*   data: z.record(z.unknown()).nullable()      errors: z.array(...).optional()
GraphQLResponseSchema(body) ==
    /\ body.shape = "object"
    /\ body.data.k \in {"object", "null"}
    /\ \/ body.errors.k = "undefined"
       \/ /\ body.errors.k = "list"
          /\ \A i \in 1..Len(body.errors.list) : GraphQLErrorSchema(body.errors.list[i])

RECURSIVE StringifyErrors(_)
StringifyErrors(list) ==
    IF list = <<>> THEN ""
    ELSE (IF Head(list).hasMessage THEN "{message:" \o Head(list).message \o "}" ELSE "{}")
         \o StringifyErrors(Tail(list))

\* JSON.stringify(response, null, 2) of an object response: keys whose value is
\* undefined are left out, null is written as null
JSONstringify(body) ==
    "{"
    \o (CASE body.data.k = "undefined" -> ""
          [] body.data.k = "null" -> "data:null"
          [] body.data.k = "array" -> "data:[]"
          [] OTHER -> "data:{" \o body.data.top.k \o "}")
    \o (CASE body.errors.k = "undefined" -> ""
          [] body.errors.k = "null" -> "errors:null"
          [] OTHER -> "errors:[" \o StringifyErrors(body.errors.list) \o "]")
    \o "}"

ParseFailedMessage(body) ==
    "Failed to parse GraphQL response. Raw response: "
    \o (IF body.shape = "object" THEN JSONstringify(body) ELSE "<html>")

NullDataMessage == "GraphQL query returned null data. Check query validity and permissions."

\* a plausible slip: the null-data check is made before the errors check
githubGraphQLRequest_nullFirst(r) ==
    LET response == githubRequest(r)
        body == response.value
    IN  IF response.type = "throw" THEN response
        ELSE IF ~GraphQLResponseSchema(body) THEN Throw("Error", ParseFailedMessage(body))
        ELSE IF body.data.k = "null" THEN Throw("Error", NullDataMessage)
        ELSE IF body.errors.k = "list" /\ Len(body.errors.list) > 0
             THEN Throw("Error", "GraphQL Error: " \o body.errors.list[1].message)
        ELSE Return(body.data)

\* a plausible slip: the parse result is not looked at, the response is used as it came
githubGraphQLRequest_noParse(r) ==
    LET response == githubRequest(r)
        body == response.value
    IN  IF response.type = "throw" THEN response
        ELSE IF body.errors.k = "list" /\ Len(body.errors.list) > 0
             THEN Throw("Error", "GraphQL Error: " \o body.errors.list[1].message)
        ELSE IF body.data.k \in {"null", "undefined"} THEN Throw("Error", NullDataMessage)
        ELSE Return(body.data)

\* a plausible slip: the first error's message is thrown as it came, without the prefix
githubGraphQLRequest_noPrefix(r) ==
    LET response == githubRequest(r)
        body == response.value
    IN  IF response.type = "throw" THEN response
        ELSE IF ~GraphQLResponseSchema(body) THEN Throw("Error", ParseFailedMessage(body))
        ELSE IF body.errors.k = "list" /\ Len(body.errors.list) > 0
             THEN Throw("Error", body.errors.list[1].message)
        ELSE IF body.data.k \in {"null", "undefined"} THEN Throw("Error", NullDataMessage)
        ELSE Return(body.data)

\* a plausible slip: an errors list that is present fails the request, even when empty
githubGraphQLRequest_emptyErrorsFail(r) ==
    LET response == githubRequest(r)
        body == response.value
    IN  IF response.type = "throw" THEN response
        ELSE IF ~GraphQLResponseSchema(body) THEN Throw("Error", ParseFailedMessage(body))
        ELSE IF body.errors.k = "list"
             THEN Throw("Error", "GraphQL Error: "
                                 \o (IF Len(body.errors.list) > 0 THEN body.errors.list[1].message
                                     ELSE "undefined"))
        ELSE IF body.data.k \in {"null", "undefined"} THEN Throw("Error", NullDataMessage)
        ELSE Return(body.data)

\* githubGraphQLRequest: the data of the response, or a throw
githubGraphQLRequest(r) ==
    LET response == githubRequest(r)
        body == response.value
    IN  IF response.type = "throw" THEN response
        ELSE IF ~GraphQLResponseSchema(body) THEN Throw("Error", ParseFailedMessage(body))
        ELSE IF body.errors.k = "list" /\ Len(body.errors.list) > 0
             THEN Throw("Error", "GraphQL Error: " \o body.errors.list[1].message)
        ELSE IF body.data.k \in {"null", "undefined"} THEN Throw("Error", NullDataMessage)
        ELSE Return(body.data)

----------------------------------------------------------------------------
(* Responses of the resource-style endpoints *)

\* an element or object of a resource response: a project, column or card that
\* conforms to its output schema (with its number and, distinct from it, its id), or
\* one that does not
BadObj == [ok |-> FALSE, number |-> 0, id |-> 0]
RestObjs == {[ok |-> TRUE, number |-> n, id |-> 10 * n] : n \in 1..MaxNumber} \cup {BadObj}

RestBodies ==
    [k : {"other"}, items : {<<>>}, obj : {BadObj}] \cup
    [k : {"array"}, items : SeqsUpTo(RestObjs, MaxProjects), obj : {BadObj}] \cup
    [k : {"object"}, items : {<<>>}, obj : RestObjs]

RestResponses ==
    [transport : {"rest"}, status : {200}, body : RestBodies] \cup
    [transport : {"rest"}, status : FailStatuses, body : {[k |-> "other", items |-> <<>>, obj |-> BadObj]}]

\* the url and columns_url fields of a project object
ProjectUrl(o) == "https://api.github.com/projects/" \o ToString(o.id)
ColumnsUrl(o) == ProjectUrl(o) \o "/columns"

----------------------------------------------------------------------------
(* Requests *)

EmptyObj == [x \in {} |-> JsUndef]

\* JSON.stringify of an object: a key whose value is undefined is not written
Defined(obj) == [x \in {y \in DOMAIN obj : obj[y].t # "undefined"} |-> obj[x]]

GraphQLEndpoint == "https://api.github.com/graphql"
PreviewAccept == "application/vnd.github.inertia-preview+json"

\* the request githubGraphQLRequest sends: POST {query, variables} to the one endpoint
GraphQLCall(query, variables) ==
    [transport |-> "graphql", method |-> "POST", url |-> GraphQLEndpoint, accept |-> "",
     query |-> query, payload |-> Defined(variables)]

\* a plausible slip: the request goes out with the default content negotiation
RestCall_noAccept(method, url, body) ==
    [transport |-> "rest", method |-> method, url |-> url, accept |-> "",
     query |-> "", payload |-> Defined(body)]

\* a request of a legacy board operation: the preview Accept header and a JSON body
RestCall(method, url, body) ==
    [transport |-> "rest", method |-> method, url |-> url, accept |-> PreviewAccept,
     query |-> "", payload |-> Defined(body)]

\* buildUrl: the parameters with a defined value are appended to the url
RECURSIVE JoinParams(_, _)
JoinParams(params, names) ==
    IF names = <<>> THEN ""
    ELSE LET v == params[Head(names)]
             this == IF v.t = "undefined" THEN ""
                     ELSE "&" \o Head(names) \o "="
                          \o (IF v.t = "number" THEN ToString(v.n) ELSE v.s)
         IN  this \o JoinParams(params, Tail(names))

buildUrl(base, params, names) == base \o "?" \o JoinParams(params, names)

NoRequest == [transport |-> "none"]

----------------------------------------------------------------------------
(* Steps of an operation function *)

\* what an operation function keeps in a local variable across an await
NoLocals == [ownerId |-> Undefined]

\* the function goes on to await `req`, or it has ended with completion `c`
Continue(req, loc) == [done |-> FALSE, completion |-> NoOutcome, send |-> req, locals |-> loc]
Finish(c) == [done |-> TRUE, completion |-> c, send |-> NoRequest, locals |-> NoLocals]

JsId(id) == IF id = Undefined THEN JsUndef ELSE JsStr(id)

\* Schema.parse(x) of an output schema: x when it conforms, a ZodError otherwise
SchemaParse(ent) ==
    IF ent.k = "object" /\ ent.ok THEN Return(ent) ELSE Throw("ZodError", "output")

\* result.a.b where result.a is undefined or null: the property access throws
TypeErrorMessage(ent) == "Cannot read properties of " \o ent.k

----------------------------------------------------------------------------
(* Identifier resolvers (projects.ts 674-694) *)

getOrganizationNodeId(orgLogin, r) ==
    LET result == githubGraphQLRequest(r)
    IN  IF result.type = "throw" THEN result
        ELSE IF result.value.top.k # "object"
             THEN Throw("Error", "Organization not found: " \o orgLogin)
        ELSE Return(result.value.top.id)

getRepositoryNodeId(ownerLogin, repoName, r) ==
    LET result == githubGraphQLRequest(r)
    IN  IF result.type = "throw" THEN result
        ELSE IF result.value.top.k # "object"
             THEN Throw("Error", "Repository not found: " \o ownerLogin \o "/" \o repoName)
        ELSE Return(result.value.top.id)

getRepositoryOwnerNodeId(ownerLogin, r) ==
    LET result == githubGraphQLRequest(r)
    IN  IF result.type = "throw" THEN result
        ELSE IF result.value.top.k # "object"
             THEN Throw("Error", "Repository owner not found: " \o ownerLogin)
        ELSE Return(result.value.top.id)

----------------------------------------------------------------------------
(* Current-model operations (projects.ts 702-958).  n is the number of      *)
(* requests of this invocation already answered, r the response just        *)
(* received (NoResponse at n = 0), loc the locals.                          *)

\* result.<top>.<inner> handed to an output schema
ParsedInner(result) ==
    IF result.type = "throw" THEN result
    ELSE IF result.value.top.k # "object"
         THEN Throw("TypeError", TypeErrorMessage(result.value.top))
    ELSE SchemaParse(result.value.inner)

\* result.<top>.<inner> returned as it came
RawInner(result) ==
    IF result.type = "throw" THEN result
    ELSE IF result.value.top.k # "object"
         THEN Throw("TypeError", TypeErrorMessage(result.value.top))
    ELSE Return(result.value.inner)

\* a plausible slip: the default also replaces a page size of 0
listOrgProjectsV2_orDefault(options, n, loc, r) ==
    IF n = 0
    THEN Continue(GraphQLCall("ListOrgProjectsV2",
            ("orgLogin" :> options.orgLogin)
            @@ ("first" :> (IF options.first.t \in {"undefined", "null"} \/ options.first = JsNum(0)
                            THEN JsNum(30) ELSE options.first))
            @@ ("after" :> options.after)), loc)
    ELSE Finish(ParsedInner(githubGraphQLRequest(r)))

\* a plausible slip: the cursor is not put into the variables
listOrgProjectsV2_noAfter(options, n, loc, r) ==
    IF n = 0
    THEN Continue(GraphQLCall("ListOrgProjectsV2",
            ("orgLogin" :> options.orgLogin)
            @@ ("first" :> (IF options.first.t \in {"undefined", "null"}
                            THEN JsNum(30) ELSE options.first))), loc)
    ELSE Finish(ParsedInner(githubGraphQLRequest(r)))

listOrgProjectsV2(options, n, loc, r) ==
    IF n = 0
    THEN Continue(GraphQLCall("ListOrgProjectsV2",
            ("orgLogin" :> options.orgLogin)
            @@ ("first" :> (IF options.first.t \in {"undefined", "null"}
                            THEN JsNum(30) ELSE options.first))
            @@ ("after" :> options.after)), loc)
    ELSE Finish(ParsedInner(githubGraphQLRequest(r)))

\* a plausible slip: the mutation is sent whatever the lookup returned
createOrgProjectV2_noAbort(options, n, loc, r) ==
    CASE n = 0 ->
           Continue(GraphQLCall("GetOrgId", "login" :> options.orgLogin), loc)
      [] n = 1 ->
           LET organizationId == getOrganizationNodeId(options.orgLogin.s, r)
           IN  Continue(GraphQLCall("CreateOrgProjectV2",
                       ("organizationId" :> (IF organizationId.type = "throw" THEN JsUndef
                                             ELSE JsId(organizationId.value)))
                       @@ ("title" :> options.title)), loc)
      [] OTHER -> Finish(ParsedInner(githubGraphQLRequest(r)))

createOrgProjectV2(options, n, loc, r) ==
    CASE n = 0 ->
           Continue(GraphQLCall("GetOrgId", "login" :> options.orgLogin), loc)
      [] n = 1 ->
           LET organizationId == getOrganizationNodeId(options.orgLogin.s, r)
           IN  IF organizationId.type = "throw" THEN Finish(organizationId)
               ELSE Continue(GraphQLCall("CreateOrgProjectV2",
                       ("organizationId" :> JsId(organizationId.value))
                       @@ ("title" :> options.title)), loc)
      [] OTHER -> Finish(ParsedInner(githubGraphQLRequest(r)))

listRepoProjectsV2(options, n, loc, r) ==
    IF n = 0
    THEN Continue(GraphQLCall("ListRepoProjectsV2",
            ("ownerLogin" :> options.ownerLogin)
            @@ ("repoName" :> options.repoName)
            @@ ("first" :> (IF options.first.t \in {"undefined", "null"}
                            THEN JsNum(30) ELSE options.first))
            @@ ("after" :> options.after)), loc)
    ELSE Finish(ParsedInner(githubGraphQLRequest(r)))

\* a plausible slip: the two lookups are made in the other order
createRepoProjectV2_swapped(options, n, loc, r) ==
    CASE n = 0 ->
           Continue(GraphQLCall("GetRepoId",
               ("owner" :> options.ownerLogin) @@ ("name" :> options.repoName)), loc)
      [] n = 1 ->
           LET repositoryId == getRepositoryNodeId(options.ownerLogin.s, options.repoName.s, r)
           IN  IF repositoryId.type = "throw" THEN Finish(repositoryId)
               ELSE Continue(GraphQLCall("GetRepoOwnerId", "login" :> options.ownerLogin),
                             [loc EXCEPT !.ownerId = repositoryId.value])
      [] n = 2 ->
           LET ownerId == getRepositoryOwnerNodeId(options.ownerLogin.s, r)
           IN  IF ownerId.type = "throw" THEN Finish(ownerId)
               ELSE Continue(GraphQLCall("CreateRepoProjectV2",
                       ("ownerId" :> JsId(ownerId.value))
                       @@ ("repositoryId" :> JsId(loc.ownerId))
                       @@ ("title" :> options.title)), loc)
      [] OTHER -> Finish(ParsedInner(githubGraphQLRequest(r)))

\* a plausible slip: an owner id that another invocation has resolved is reused
\* instead of being looked up again
createRepoProjectV2_cached(options, n, loc, r) ==
    LET awaited == IF n = 0 THEN "" ELSE sent[Len(sent)].query
    IN  CASE n = 0 /\ other.locals.ownerId = Undefined ->
               Continue(GraphQLCall("GetRepoOwnerId", "login" :> options.ownerLogin), loc)
          [] n = 0 ->
               Continue(GraphQLCall("GetRepoId",
                   ("owner" :> options.ownerLogin) @@ ("name" :> options.repoName)),
                   [loc EXCEPT !.ownerId = other.locals.ownerId])
          [] awaited = "GetRepoOwnerId" ->
               LET ownerId == getRepositoryOwnerNodeId(options.ownerLogin.s, r)
               IN  IF ownerId.type = "throw" THEN Finish(ownerId)
                   ELSE Continue(GraphQLCall("GetRepoId",
                           ("owner" :> options.ownerLogin) @@ ("name" :> options.repoName)),
                           [loc EXCEPT !.ownerId = ownerId.value])
          [] awaited = "GetRepoId" ->
               LET repositoryId ==
                       getRepositoryNodeId(options.ownerLogin.s, options.repoName.s, r)
               IN  IF repositoryId.type = "throw" THEN Finish(repositoryId)
                   ELSE Continue(GraphQLCall("CreateRepoProjectV2",
                           ("ownerId" :> JsId(loc.ownerId))
                           @@ ("repositoryId" :> JsId(repositoryId.value))
                           @@ ("title" :> options.title)), loc)
          [] OTHER -> Finish(ParsedInner(githubGraphQLRequest(r)))

createRepoProjectV2(options, n, loc, r) ==
    CASE n = 0 ->
           Continue(GraphQLCall("GetRepoOwnerId", "login" :> options.ownerLogin), loc)
      [] n = 1 ->
           LET ownerId == getRepositoryOwnerNodeId(options.ownerLogin.s, r)
           IN  IF ownerId.type = "throw" THEN Finish(ownerId)
               ELSE Continue(GraphQLCall("GetRepoId",
                       ("owner" :> options.ownerLogin) @@ ("name" :> options.repoName)),
                       [loc EXCEPT !.ownerId = ownerId.value])
      [] n = 2 ->
           LET repositoryId == getRepositoryNodeId(options.ownerLogin.s, options.repoName.s, r)
           IN  IF repositoryId.type = "throw" THEN Finish(repositoryId)
               ELSE Continue(GraphQLCall("CreateRepoProjectV2",
                       ("ownerId" :> JsId(loc.ownerId))
                       @@ ("repositoryId" :> JsId(repositoryId.value))
                       @@ ("title" :> options.title)), loc)
      [] OTHER -> Finish(ParsedInner(githubGraphQLRequest(r)))

\* a plausible slip: the node goes to the schema without the null check
getProjectV2_noCheck(options, n, loc, r) ==
    IF n = 0
    THEN Continue(GraphQLCall("GetProjectV2", "projectId" :> options.projectId), loc)
    ELSE LET result == githubGraphQLRequest(r)
         IN  IF result.type = "throw" THEN Finish(result)
             ELSE Finish(SchemaParse(result.value.top))

getProjectV2(options, n, loc, r) ==
    IF n = 0
    THEN Continue(GraphQLCall("GetProjectV2", "projectId" :> options.projectId), loc)
    ELSE LET result == githubGraphQLRequest(r)
         IN  IF result.type = "throw" THEN Finish(result)
             ELSE IF result.value.top.k # "object"
                  THEN Finish(Throw("Error", "Project V2 with Node ID " \o options.projectId.s
                                             \o " not found or not accessible."))
             ELSE Finish(SchemaParse(result.value.top))

\* the variables updateProjectV2 builds: projectId and the fields that were given
UpdateVariables(options) ==
    Defined(("projectId" :> options.projectId) @@ ("title" :> options.title)
            @@ ("readme" :> options.readme) @@ ("closed" :> options.closed))

\* a plausible slip: the mutation is sent also when there is nothing to update
updateProjectV2_always(options, n, loc, r) ==
    IF n = 0
    THEN Continue(GraphQLCall("UpdateProjectV2", UpdateVariables(options)), loc)
    ELSE Finish(ParsedInner(githubGraphQLRequest(r)))

updateProjectV2(options, n, loc, r) ==
    IF Cardinality(DOMAIN UpdateVariables(options)) <= 1
    THEN getProjectV2([projectId |-> options.projectId], n, loc, r)
    ELSE IF n = 0
         THEN Continue(GraphQLCall("UpdateProjectV2", UpdateVariables(options)), loc)
         ELSE Finish(ParsedInner(githubGraphQLRequest(r)))

deleteProjectV2(options, n, loc, r) ==
    IF n = 0
    THEN Continue(GraphQLCall("DeleteProjectV2", "projectId" :> options.projectId), loc)
    ELSE LET result == githubGraphQLRequest(r)
         IN  IF result.type = "throw" THEN Finish(result) ELSE Finish(Return(NoValue))

listProjectFieldsV2(options, n, loc, r) ==
    IF n = 0
    THEN Continue(GraphQLCall("ListProjectFieldsV2",
            ("projectId" :> options.projectId)
            @@ ("first" :> (IF options.first.t \in {"undefined", "null"}
                            THEN JsNum(30) ELSE options.first))
            @@ ("after" :> options.after)), loc)
    ELSE LET result == githubGraphQLRequest(r)
         IN  IF result.type = "throw" THEN Finish(result)
             ELSE IF result.value.top.k # "object" \/ result.value.inner.k # "object"
                  THEN Finish(Throw("Error", "Fields for Project V2 " \o options.projectId.s
                                             \o " not found or project doesn't exist."))
             ELSE Finish(Return(result.value.inner))

listProjectItemsV2(options, n, loc, r) ==
    IF n = 0
    THEN Continue(GraphQLCall("ListProjectItemsV2",
            ("projectId" :> options.projectId)
            @@ ("first" :> (IF options.first.t \in {"undefined", "null"}
                            THEN JsNum(30) ELSE options.first))
            @@ ("after" :> options.after)), loc)
    ELSE LET result == githubGraphQLRequest(r)
         IN  IF result.type = "throw" THEN Finish(result)
             ELSE IF result.value.top.k # "object" \/ result.value.inner.k # "object"
                  THEN Finish(Throw("Error", "Items for Project V2 " \o options.projectId.s
                                             \o " not found or project doesn't exist."))
             ELSE Finish(SchemaParse(result.value.inner))

\* a plausible slip: a body that was not given is sent as null
addProjectDraftIssueV2_nullBody(options, n, loc, r) ==
    IF n = 0
    THEN Continue(GraphQLCall("AddDraftIssue",
            ("projectId" :> options.projectId) @@ ("title" :> options.title)
            @@ ("body" :> (IF options.body = JsUndef THEN JsNull ELSE options.body))), loc)
    ELSE Finish(RawInner(githubGraphQLRequest(r)))

addProjectDraftIssueV2(options, n, loc, r) ==
    IF n = 0
    THEN Continue(GraphQLCall("AddDraftIssue",
            ("projectId" :> options.projectId) @@ ("title" :> options.title)
            @@ ("body" :> options.body)), loc)
    ELSE Finish(RawInner(githubGraphQLRequest(r)))

addProjectItemByIdV2(options, n, loc, r) ==
    IF n = 0
    THEN Continue(GraphQLCall("AddItemById",
            ("projectId" :> options.projectId) @@ ("contentId" :> options.contentId)), loc)
    ELSE Finish(RawInner(githubGraphQLRequest(r)))

updateProjectItemFieldValueV2(options, n, loc, r) ==
    IF n = 0
    THEN Continue(GraphQLCall("UpdateItemFieldValue",
            ("projectId" :> options.projectId) @@ ("itemId" :> options.itemId)
            @@ ("fieldId" :> options.fieldId) @@ ("value" :> options.value)), loc)
    ELSE Finish(RawInner(githubGraphQLRequest(r)))

deleteProjectItemV2(options, n, loc, r) ==
    IF n = 0
    THEN Continue(GraphQLCall("DeleteItem",
            ("projectId" :> options.projectId) @@ ("itemId" :> options.itemId)), loc)
    ELSE LET result == githubGraphQLRequest(r)
         IN  IF result.type = "throw" THEN Finish(result) ELSE Finish(Return(result.value.top))

----------------------------------------------------------------------------
(* Legacy operations (projects.ts 1354-1869) *)

Opt(options, key) == IF key \in DOMAIN options THEN options[key] ELSE JsUndef

\* z.array(Schema).parse(response)
ArrayParse(response) ==
    IF response.type = "throw" THEN response
    ELSE IF /\ response.value.k = "array"
            /\ \A i \in 1..Len(response.value.items) : response.value.items[i].ok
         THEN Return([k |-> "array", items |-> response.value.items])
    ELSE Throw("ZodError", "output")

\* Schema.parse(response)
ObjectParse(response) ==
    IF response.type = "throw" THEN response
    ELSE IF response.value.k = "object" /\ response.value.obj.ok
         THEN Return([k |-> "object", obj |-> response.value.obj])
    ELSE Throw("ZodError", "output")

\* await githubRequest(...) of a function that returns nothing
Awaited(response) == IF response.type = "throw" THEN response ELSE Return(NoValue)

\* projects.find(p => p.number === projectNumber): the first match, if any
FindByNumber(items, number) ==
    LET hits == {i \in 1..Len(items) : items[i].number = number}
    IN  IF hits = {} THEN BadObj ELSE items[CHOOSE i \in hits : \A j \in hits : i <= j]

ColumnUrl(columnId) == "https://api.github.com/projects/columns/" \o ToString(columnId)
CardUrl(cardId) == "https://api.github.com/projects/cards/" \o ToString(cardId)

\* a plausible slip: page and per_page change places
listProjects_swapped(owner, repo, options, n, loc, r) ==
    IF n = 0
    THEN Continue(RestCall("GET",
            buildUrl("https://api.github.com/repos/" \o owner \o "/" \o repo \o "/projects",
                     ("state" :> Opt(options, "state"))
                     @@ ("per_page" :> Opt(options, "page"))
                     @@ ("page" :> Opt(options, "per_page")),
                     <<"state", "per_page", "page">>),
            EmptyObj), loc)
    ELSE Finish(ArrayParse(githubRequest(r)))

listProjects(owner, repo, options, n, loc, r) ==
    IF n = 0
    THEN Continue(RestCall("GET",
            buildUrl("https://api.github.com/repos/" \o owner \o "/" \o repo \o "/projects",
                     ("state" :> Opt(options, "state"))
                     @@ ("per_page" :> Opt(options, "per_page"))
                     @@ ("page" :> Opt(options, "page")),
                     <<"state", "per_page", "page">>),
            EmptyObj), loc)
    ELSE Finish(ArrayParse(githubRequest(r)))

createProject(owner, repo, options, n, loc, r) ==
    IF n = 0
    THEN Continue(RestCall("POST",
            "https://api.github.com/repos/" \o owner \o "/" \o repo \o "/projects", options), loc)
    ELSE Finish(ObjectParse(githubRequest(r)))

\* a plausible slip: the project of the listing is returned, without fetching it
getProject_fromListing(owner, repo, projectNumber, n, loc, r) ==
    CASE n = 0 -> listProjects(owner, repo, EmptyObj, 0, loc, r)
      [] OTHER ->
           LET projects == listProjects(owner, repo, EmptyObj, 1, loc, r).completion
               project == FindByNumber(projects.value.items, projectNumber)
           IN  IF projects.type = "throw" THEN Finish(projects)
               ELSE IF ~project.ok
                    THEN Finish(Throw("Error", "Project number " \o ToString(projectNumber)
                             \o " not found in repository " \o owner \o "/" \o repo))
               ELSE Finish(Return([k |-> "object", obj |-> project]))

getProject(owner, repo, projectNumber, n, loc, r) ==
    CASE n = 0 -> listProjects(owner, repo, EmptyObj, 0, loc, r)
      [] n = 1 ->
           LET projects == listProjects(owner, repo, EmptyObj, 1, loc, r).completion
               project == FindByNumber(projects.value.items, projectNumber)
           IN  IF projects.type = "throw" THEN Finish(projects)
               ELSE IF ~project.ok
                    THEN Finish(Throw("Error", "Project number " \o ToString(projectNumber)
                             \o " not found in repository " \o owner \o "/" \o repo))
               ELSE Continue(RestCall("GET", ProjectUrl(project), EmptyObj), loc)
      [] OTHER -> Finish(ObjectParse(githubRequest(r)))

\* a plausible slip: the PATCH goes to the url of the listed project, without
\* fetching the project first
updateProject_skipGet(owner, repo, projectNumber, options, n, loc, r) ==
    CASE n = 0 -> listProjects(owner, repo, EmptyObj, 0, loc, r)
      [] n = 1 ->
           LET projects == listProjects(owner, repo, EmptyObj, 1, loc, r).completion
               project == FindByNumber(projects.value.items, projectNumber)
           IN  IF projects.type = "throw" THEN Finish(projects)
               ELSE IF ~project.ok
                    THEN Finish(Throw("Error", "Project number " \o ToString(projectNumber)
                             \o " not found in repository " \o owner \o "/" \o repo))
               ELSE Continue(RestCall("PATCH", ProjectUrl(project), options), loc)
      [] OTHER -> Finish(ObjectParse(githubRequest(r)))

updateProject(owner, repo, projectNumber, options, n, loc, r) ==
    IF n <= 2
    THEN LET project == getProject(owner, repo, projectNumber, n, loc, r)
         IN  IF ~project.done \/ project.completion.type = "throw" THEN project
             ELSE Continue(RestCall("PATCH", ProjectUrl(project.completion.value.obj), options),
                           loc)
    ELSE Finish(ObjectParse(githubRequest(r)))

deleteProject(owner, repo, projectNumber, n, loc, r) ==
    IF n <= 2
    THEN LET project == getProject(owner, repo, projectNumber, n, loc, r)
         IN  IF ~project.done \/ project.completion.type = "throw" THEN project
             ELSE Continue(RestCall("DELETE", ProjectUrl(project.completion.value.obj), EmptyObj),
                           loc)
    ELSE Finish(Awaited(githubRequest(r)))

listProjectColumns(owner, repo, projectNumber, options, n, loc, r) ==
    IF n <= 2
    THEN LET project == getProject(owner, repo, projectNumber, n, loc, r)
         IN  IF ~project.done \/ project.completion.type = "throw" THEN project
             ELSE Continue(RestCall("GET",
                     buildUrl(ColumnsUrl(project.completion.value.obj),
                              ("per_page" :> Opt(options, "per_page"))
                              @@ ("page" :> Opt(options, "page")),
                              <<"per_page", "page">>),
                     EmptyObj), loc)
    ELSE Finish(ArrayParse(githubRequest(r)))

createProjectColumn(owner, repo, projectNumber, options, n, loc, r) ==
    IF n <= 2
    THEN LET project == getProject(owner, repo, projectNumber, n, loc, r)
         IN  IF ~project.done \/ project.completion.type = "throw" THEN project
             ELSE Continue(RestCall("POST", ColumnsUrl(project.completion.value.obj), options),
                           loc)
    ELSE Finish(ObjectParse(githubRequest(r)))

updateProjectColumn(owner, repo, projectNumber, columnId, options, n, loc, r) ==
    IF n = 0
    THEN Continue(RestCall("PATCH", ColumnUrl(columnId), options), loc)
    ELSE Finish(ObjectParse(githubRequest(r)))

deleteProjectColumn(owner, repo, projectNumber, columnId, n, loc, r) ==
    IF n = 0
    THEN Continue(RestCall("DELETE", ColumnUrl(columnId), EmptyObj), loc)
    ELSE Finish(Awaited(githubRequest(r)))

listProjectCards(owner, repo, projectNumber, columnId, options, n, loc, r) ==
    IF n = 0
    THEN Continue(RestCall("GET",
            buildUrl(ColumnUrl(columnId) \o "/cards",
                     ("archived_state" :> Opt(options, "archived_state"))
                     @@ ("per_page" :> Opt(options, "per_page"))
                     @@ ("page" :> Opt(options, "page")),
                     <<"archived_state", "per_page", "page">>),
            EmptyObj), loc)
    ELSE Finish(ArrayParse(githubRequest(r)))

createProjectCard(owner, repo, projectNumber, columnId, options, n, loc, r) ==
    IF n = 0
    THEN Continue(RestCall("POST", ColumnUrl(columnId) \o "/cards", options), loc)
    ELSE Finish(ObjectParse(githubRequest(r)))

updateProjectCard(owner, repo, projectNumber, cardId, options, n, loc, r) ==
    IF n = 0
    THEN Continue(RestCall("PATCH", CardUrl(cardId), options), loc)
    ELSE Finish(ObjectParse(githubRequest(r)))

\* a plausible slip: a failed DELETE is sent a second time
deleteProjectCard_retry(owner, repo, projectNumber, cardId, n, loc, r) ==
    IF n = 0 \/ (n = 1 /\ githubRequest(r).type = "throw")
    THEN Continue(RestCall("DELETE", CardUrl(cardId), EmptyObj), loc)
    ELSE Finish(Awaited(githubRequest(r)))

deleteProjectCard(owner, repo, projectNumber, cardId, n, loc, r) ==
    IF n = 0
    THEN Continue(RestCall("DELETE", CardUrl(cardId), EmptyObj), loc)
    ELSE Finish(Awaited(githubRequest(r)))

\* the body of a move: position, and column_id when columnId is truthy
MoveBody(position, columnId) ==
    ("position" :> position)
    @@ (IF columnId.t = "number" /\ columnId.n # 0 THEN "column_id" :> columnId ELSE EmptyObj)

moveProjectCard(owner, repo, projectNumber, cardId, position, columnId, n, loc, r) ==
    IF n = 0
    THEN Continue(RestCall("POST", CardUrl(cardId) \o "/moves", MoveBody(position, columnId)),
                  loc)
    ELSE Finish(Awaited(githubRequest(r)))

----------------------------------------------------------------------------
(* Legacy operations on organization projects (projects.ts 1620-1869) *)

\* a plausible slip: a page size of 30 is sent when the caller gives none
listOrgProjects_defaultPerPage(org, options, n, loc, r) ==
    IF n = 0
    THEN Continue(RestCall("GET",
            buildUrl("https://api.github.com/orgs/" \o org \o "/projects",
                     ("state" :> Opt(options, "state"))
                     @@ ("per_page" :> (IF Opt(options, "per_page") = JsUndef THEN JsNum(30)
                                        ELSE Opt(options, "per_page")))
                     @@ ("page" :> Opt(options, "page")),
                     <<"state", "per_page", "page">>),
            EmptyObj), loc)
    ELSE Finish(ArrayParse(githubRequest(r)))

listOrgProjects(org, options, n, loc, r) ==
    IF n = 0
    THEN Continue(RestCall("GET",
            buildUrl("https://api.github.com/orgs/" \o org \o "/projects",
                     ("state" :> Opt(options, "state"))
                     @@ ("per_page" :> Opt(options, "per_page"))
                     @@ ("page" :> Opt(options, "page")),
                     <<"state", "per_page", "page">>),
            EmptyObj), loc)
    ELSE Finish(ArrayParse(githubRequest(r)))

createOrgProject(org, options, n, loc, r) ==
    IF n = 0
    THEN Continue(RestCall("POST", "https://api.github.com/orgs/" \o org \o "/projects",
                           options), loc)
    ELSE Finish(ObjectParse(githubRequest(r)))

\* a plausible slip: the project is looked up in the current model and then
\* fetched from the legacy one
getOrgProject_bothModels(org, projectNumber, n, loc, r) ==
    CASE n = 0 ->
           Continue(GraphQLCall("ListOrgProjectsV2",
                                ("orgLogin" :> JsStr(org)) @@ ("first" :> JsNum(30))), loc)
      [] n = 1 ->
           LET result == githubGraphQLRequest(r)
           IN  IF result.type = "throw" THEN Finish(result)
               ELSE IF result.value.top.k # "object" \/ result.value.inner.k # "object"
                    THEN Finish(Throw("Error", "Project number " \o ToString(projectNumber)
                             \o " not found in organization " \o org))
               ELSE Continue(RestCall("GET", "https://api.github.com/projects/"
                                             \o ToString(projectNumber), EmptyObj), loc)
      [] OTHER -> Finish(ObjectParse(githubRequest(r)))

getOrgProject(org, projectNumber, n, loc, r) ==
    CASE n = 0 -> listOrgProjects(org, EmptyObj, 0, loc, r)
      [] n = 1 ->
           LET projects == listOrgProjects(org, EmptyObj, 1, loc, r).completion
               project == FindByNumber(projects.value.items, projectNumber)
           IN  IF projects.type = "throw" THEN Finish(projects)
               ELSE IF ~project.ok
                    THEN Finish(Throw("Error", "Project number " \o ToString(projectNumber)
                             \o " not found in organization " \o org))
               ELSE Continue(RestCall("GET", ProjectUrl(project), EmptyObj), loc)
      [] OTHER -> Finish(ObjectParse(githubRequest(r)))

updateOrgProject(org, projectNumber, options, n, loc, r) ==
    IF n <= 2
    THEN LET project == getOrgProject(org, projectNumber, n, loc, r)
         IN  IF ~project.done \/ project.completion.type = "throw" THEN project
             ELSE Continue(RestCall("PATCH", ProjectUrl(project.completion.value.obj), options),
                           loc)
    ELSE Finish(ObjectParse(githubRequest(r)))

deleteOrgProject(org, projectNumber, n, loc, r) ==
    IF n <= 2
    THEN LET project == getOrgProject(org, projectNumber, n, loc, r)
         IN  IF ~project.done \/ project.completion.type = "throw" THEN project
             ELSE Continue(RestCall("DELETE", ProjectUrl(project.completion.value.obj), EmptyObj),
                           loc)
    ELSE Finish(Awaited(githubRequest(r)))

listOrgProjectColumns(org, projectNumber, options, n, loc, r) ==
    IF n <= 2
    THEN LET project == getOrgProject(org, projectNumber, n, loc, r)
         IN  IF ~project.done \/ project.completion.type = "throw" THEN project
             ELSE Continue(RestCall("GET",
                     buildUrl(ColumnsUrl(project.completion.value.obj),
                              ("per_page" :> Opt(options, "per_page"))
                              @@ ("page" :> Opt(options, "page")),
                              <<"per_page", "page">>),
                     EmptyObj), loc)
    ELSE Finish(ArrayParse(githubRequest(r)))

createOrgProjectColumn(org, projectNumber, options, n, loc, r) ==
    IF n <= 2
    THEN LET project == getOrgProject(org, projectNumber, n, loc, r)
         IN  IF ~project.done \/ project.completion.type = "throw" THEN project
             ELSE Continue(RestCall("POST", ColumnsUrl(project.completion.value.obj), options),
                           loc)
    ELSE Finish(ObjectParse(githubRequest(r)))

updateOrgProjectColumn(org, projectNumber, columnId, options, n, loc, r) ==
    IF n = 0
    THEN Continue(RestCall("PATCH", ColumnUrl(columnId), options), loc)
    ELSE Finish(ObjectParse(githubRequest(r)))

deleteOrgProjectColumn(org, projectNumber, columnId, n, loc, r) ==
    IF n = 0
    THEN Continue(RestCall("DELETE", ColumnUrl(columnId), EmptyObj), loc)
    ELSE Finish(Awaited(githubRequest(r)))

listOrgProjectCards(org, projectNumber, columnId, options, n, loc, r) ==
    IF n = 0
    THEN Continue(RestCall("GET",
            buildUrl(ColumnUrl(columnId) \o "/cards",
                     ("archived_state" :> Opt(options, "archived_state"))
                     @@ ("per_page" :> Opt(options, "per_page"))
                     @@ ("page" :> Opt(options, "page")),
                     <<"archived_state", "per_page", "page">>),
            EmptyObj), loc)
    ELSE Finish(ArrayParse(githubRequest(r)))

createOrgProjectCard(org, projectNumber, columnId, options, n, loc, r) ==
    IF n = 0
    THEN Continue(RestCall("POST", ColumnUrl(columnId) \o "/cards", options), loc)
    ELSE Finish(ObjectParse(githubRequest(r)))

updateOrgProjectCard(org, projectNumber, cardId, options, n, loc, r) ==
    IF n = 0
    THEN Continue(RestCall("PATCH", CardUrl(cardId), options), loc)
    ELSE Finish(ObjectParse(githubRequest(r)))

deleteOrgProjectCard(org, projectNumber, cardId, n, loc, r) ==
    IF n = 0
    THEN Continue(RestCall("DELETE", CardUrl(cardId), EmptyObj), loc)
    ELSE Finish(Awaited(githubRequest(r)))

moveOrgProjectCard(org, projectNumber, cardId, position, columnId, n, loc, r) ==
    IF n = 0
    THEN Continue(RestCall("POST", CardUrl(cardId) \o "/moves", MoveBody(position, columnId)),
                  loc)
    ELSE Finish(Awaited(githubRequest(r)))

----------------------------------------------------------------------------
(* Input schemas of the legacy tools (projects.ts 1136-1346): the fields in *)
(* the order the schema declares them                                        *)

Str(name) == [name |-> name, type |-> "string", optional |-> FALSE, values |-> {}]
Num(name) == [name |-> name, type |-> "number", optional |-> FALSE, values |-> {}]
Bool(name) == [name |-> name, type |-> "boolean", optional |-> FALSE, values |-> {}]
Enum(name, values) == [name |-> name, type |-> "enum", optional |-> FALSE, values |-> values]
\* .optional(): the field may be left out
Optional(field) == [field EXCEPT !.optional = TRUE]

ListProjectsSchema ==
    <<Str("owner"),
      Str("repo"),
      Optional(Enum("state", {"open", "closed", "all"})),
      Optional(Num("per_page")),
      Optional(Num("page"))>>

CreateProjectSchema ==
    <<Str("owner"),
      Str("repo"),
      Str("name"),
      Optional(Str("body"))>>

GetProjectSchema ==
    <<Str("owner"),
      Str("repo"),
      Num("project_number")>>

UpdateProjectSchema ==
    <<Str("owner"),
      Str("repo"),
      Num("project_number"),
      Optional(Str("name")),
      Optional(Str("body")),
      Optional(Enum("state", {"open", "closed"}))>>

DeleteProjectSchema ==
    <<Str("owner"),
      Str("repo"),
      Num("project_number")>>

ListProjectColumnsSchema ==
    <<Str("owner"),
      Str("repo"),
      Num("project_number"),
      Optional(Num("per_page")),
      Optional(Num("page"))>>

CreateProjectColumnSchema ==
    <<Str("owner"),
      Str("repo"),
      Num("project_number"),
      Str("name")>>

UpdateProjectColumnSchema ==
    <<Str("owner"),
      Str("repo"),
      Num("project_number"),
      Num("column_id"),
      Str("name")>>

DeleteProjectColumnSchema ==
    <<Str("owner"),
      Str("repo"),
      Num("project_number"),
      Num("column_id")>>

ListProjectCardsSchema ==
    <<Str("owner"),
      Str("repo"),
      Num("project_number"),
      Num("column_id"),
      Optional(Enum("archived_state", {"all", "archived", "not_archived"})),
      Optional(Num("per_page")),
      Optional(Num("page"))>>

CreateProjectCardSchema ==
    <<Str("owner"),
      Str("repo"),
      Num("project_number"),
      Num("column_id"),
      Optional(Str("note")),
      Optional(Num("content_id")),
      Optional(Enum("content_type", {"Issue", "PullRequest"}))>>

UpdateProjectCardSchema ==
    <<Str("owner"),
      Str("repo"),
      Num("project_number"),
      Num("card_id"),
      Optional(Str("note")),
      Optional(Bool("archived"))>>

DeleteProjectCardSchema ==
    <<Str("owner"),
      Str("repo"),
      Num("project_number"),
      Num("card_id")>>

MoveProjectCardSchema ==
    <<Str("owner"),
      Str("repo"),
      Num("project_number"),
      Num("card_id"),
      Enum("position", {"top", "bottom", "after:<card_id>"}),
      Optional(Num("column_id"))>>

ListOrgProjectsSchema ==
    <<Str("org"),
      Optional(Enum("state", {"open", "closed", "all"})),
      Optional(Num("per_page")),
      Optional(Num("page"))>>

CreateOrgProjectSchema ==
    <<Str("org"),
      Str("name"),
      Optional(Str("body"))>>

GetOrgProjectSchema ==
    <<Str("org"),
      Num("project_number")>>

UpdateOrgProjectSchema ==
    <<Str("org"),
      Num("project_number"),
      Optional(Str("name")),
      Optional(Str("body")),
      Optional(Enum("state", {"open", "closed"}))>>

DeleteOrgProjectSchema ==
    <<Str("org"),
      Num("project_number")>>

ListOrgProjectColumnsSchema ==
    <<Str("org"),
      Num("project_number"),
      Optional(Num("per_page")),
      Optional(Num("page"))>>

CreateOrgProjectColumnSchema ==
    <<Str("org"),
      Num("project_number"),
      Str("name")>>

UpdateOrgProjectColumnSchema ==
    <<Str("org"),
      Num("project_number"),
      Num("column_id"),
      Str("name")>>

DeleteOrgProjectColumnSchema ==
    <<Str("org"),
      Num("project_number"),
      Num("column_id")>>

ListOrgProjectCardsSchema ==
    <<Str("org"),
      Num("project_number"),
      Num("column_id"),
      Optional(Enum("archived_state", {"all", "archived", "not_archived"})),
      Optional(Num("per_page")),
      Optional(Num("page"))>>

CreateOrgProjectCardSchema ==
    <<Str("org"),
      Num("project_number"),
      Num("column_id"),
      Optional(Str("note")),
      Optional(Num("content_id")),
      Optional(Enum("content_type", {"Issue", "PullRequest"}))>>

UpdateOrgProjectCardSchema ==
    <<Str("org"),
      Num("project_number"),
      Num("card_id"),
      Optional(Str("note")),
      Optional(Bool("archived"))>>

DeleteOrgProjectCardSchema ==
    <<Str("org"),
      Num("project_number"),
      Num("card_id")>>

MoveOrgProjectCardSchema ==
    <<Str("org"),
      Num("project_number"),
      Num("card_id"),
      Enum("position", {"top", "bottom", "after:<card_id>"}),
      Optional(Num("column_id"))>>

----------------------------------------------------------------------------
(* The call handler (README.md 990-1531) *)

Tools ==
    {"list_projects", "create_project", "get_project", "update_project",
     "delete_project", "list_project_columns", "create_project_column", "update_project_column",
     "delete_project_column", "list_project_cards", "create_project_card", "update_project_card",
     "delete_project_card", "move_project_card", "list_org_projects", "create_org_project",
     "get_org_project", "update_org_project", "delete_org_project", "list_org_project_columns",
     "create_org_project_column", "update_org_project_column", "delete_org_project_column", "list_org_project_cards",
     "create_org_project_card", "update_org_project_card", "delete_org_project_card", "move_org_project_card"}

\* the cases of the switch that answer { success: true }
SuccessTools ==
    {"delete_project", "delete_project_column", "delete_project_card", "move_project_card",
     "delete_org_project", "delete_org_project_column", "delete_org_project_card", "move_org_project_card"}

ToolSchema(name) ==
    CASE name = "list_projects" -> ListProjectsSchema
      [] name = "create_project" -> CreateProjectSchema
      [] name = "get_project" -> GetProjectSchema
      [] name = "update_project" -> UpdateProjectSchema
      [] name = "delete_project" -> DeleteProjectSchema
      [] name = "list_project_columns" -> ListProjectColumnsSchema
      [] name = "create_project_column" -> CreateProjectColumnSchema
      [] name = "update_project_column" -> UpdateProjectColumnSchema
      [] name = "delete_project_column" -> DeleteProjectColumnSchema
      [] name = "list_project_cards" -> ListProjectCardsSchema
      [] name = "create_project_card" -> CreateProjectCardSchema
      [] name = "update_project_card" -> UpdateProjectCardSchema
      [] name = "delete_project_card" -> DeleteProjectCardSchema
      [] name = "move_project_card" -> MoveProjectCardSchema
      [] name = "list_org_projects" -> ListOrgProjectsSchema
      [] name = "create_org_project" -> CreateOrgProjectSchema
      [] name = "get_org_project" -> GetOrgProjectSchema
      [] name = "update_org_project" -> UpdateOrgProjectSchema
      [] name = "delete_org_project" -> DeleteOrgProjectSchema
      [] name = "list_org_project_columns" -> ListOrgProjectColumnsSchema
      [] name = "create_org_project_column" -> CreateOrgProjectColumnSchema
      [] name = "update_org_project_column" -> UpdateOrgProjectColumnSchema
      [] name = "delete_org_project_column" -> DeleteOrgProjectColumnSchema
      [] name = "list_org_project_cards" -> ListOrgProjectCardsSchema
      [] name = "create_org_project_card" -> CreateOrgProjectCardSchema
      [] name = "update_org_project_card" -> UpdateOrgProjectCardSchema
      [] name = "delete_org_project_card" -> DeleteOrgProjectCardSchema
      [] name = "move_org_project_card" -> MoveOrgProjectCardSchema

\* whether a schema field accepts a value
Accepts(field, v) ==
    CASE v.t = "undefined" -> field.optional
      [] field.type = "enum" -> v.t = "string" /\ v.s \in field.values
      [] OTHER -> v.t = field.type

\* the fields (by position in the schema) that Schema.parse(arguments) rejects
Issues(schema, a) == {i \in 1..Len(schema) : ~Accepts(schema[i], a[schema[i].name])}

\* a plausible slip: only the first rejected field is reported
IssuesText_firstOnly(schema, a, i) ==
    LET first == CHOOSE j \in Issues(schema, a) : \A k \in Issues(schema, a) : j <= k
    IN  IF Issues(schema, a) = {} THEN "" ELSE "{path:" \o schema[first].name \o "}"

\* JSON.stringify(error.errors): one entry per rejected field, in schema order
RECURSIVE IssuesText(_, _, _)
IssuesText(schema, a, i) ==
    IF i > Len(schema) THEN ""
    ELSE (IF i \in Issues(schema, a) THEN "{path:" \o schema[i].name \o "}" ELSE "")
         \o IssuesText(schema, a, i + 1)

\* const { owner, repo, ...options } = args
Rest(a, taken) == [x \in DOMAIN a \ taken |-> a[x]]

\* a parsed argument as the string or number the operation is typed to take
\* (in a template literal null and undefined are written by their names)
ArgStr(v) == IF v.t = "string" THEN v.s ELSE v.t
ArgNum(v) == IF v.t = "number" THEN v.n ELSE 0

\* the call each case of the switch makes with the parsed arguments
CallOperation(name, a, n, loc, r) ==
    CASE name = "list_projects" ->
           listProjects(ArgStr(a.owner), ArgStr(a.repo), Rest(a, {"owner", "repo"}), n, loc, r)
      [] name = "create_project" ->
           createProject(ArgStr(a.owner), ArgStr(a.repo), Rest(a, {"owner", "repo"}), n, loc, r)
      [] name = "get_project" ->
           getProject(ArgStr(a.owner), ArgStr(a.repo), ArgNum(a.project_number), n, loc, r)
      [] name = "update_project" ->
           updateProject(ArgStr(a.owner), ArgStr(a.repo), ArgNum(a.project_number), Rest(a, {"owner", "repo", "project_number"}),
               n, loc, r)
      [] name = "delete_project" ->
           deleteProject(ArgStr(a.owner), ArgStr(a.repo), ArgNum(a.project_number), n, loc, r)
      [] name = "list_project_columns" ->
           listProjectColumns(ArgStr(a.owner), ArgStr(a.repo), ArgNum(a.project_number), Rest(a, {"owner", "repo", "project_number"}),
               n, loc, r)
      [] name = "create_project_column" ->
           createProjectColumn(ArgStr(a.owner), ArgStr(a.repo), ArgNum(a.project_number), Rest(a, {"owner", "repo", "project_number"}),
               n, loc, r)
      [] name = "update_project_column" ->
           updateProjectColumn(ArgStr(a.owner), ArgStr(a.repo), ArgNum(a.project_number), ArgNum(a.column_id), Rest(a, {"owner", "repo", "project_number", "column_id"}),
               n, loc, r)
      [] name = "delete_project_column" ->
           deleteProjectColumn(ArgStr(a.owner), ArgStr(a.repo), ArgNum(a.project_number), ArgNum(a.column_id),
               n, loc, r)
      [] name = "list_project_cards" ->
           listProjectCards(ArgStr(a.owner), ArgStr(a.repo), ArgNum(a.project_number), ArgNum(a.column_id), Rest(a, {"owner", "repo", "project_number", "column_id"}),
               n, loc, r)
      [] name = "create_project_card" ->
           createProjectCard(ArgStr(a.owner), ArgStr(a.repo), ArgNum(a.project_number), ArgNum(a.column_id), Rest(a, {"owner", "repo", "project_number", "column_id"}),
               n, loc, r)
      [] name = "update_project_card" ->
           updateProjectCard(ArgStr(a.owner), ArgStr(a.repo), ArgNum(a.project_number), ArgNum(a.card_id), Rest(a, {"owner", "repo", "project_number", "card_id"}),
               n, loc, r)
      [] name = "delete_project_card" ->
           deleteProjectCard(ArgStr(a.owner), ArgStr(a.repo), ArgNum(a.project_number), ArgNum(a.card_id),
               n, loc, r)
      [] name = "move_project_card" ->
           moveProjectCard(ArgStr(a.owner), ArgStr(a.repo), ArgNum(a.project_number), ArgNum(a.card_id), a.position, a.column_id,
               n, loc, r)
      [] name = "list_org_projects" ->
           listOrgProjects(ArgStr(a.org), Rest(a, {"org"}), n, loc, r)
      [] name = "create_org_project" ->
           createOrgProject(ArgStr(a.org), Rest(a, {"org"}), n, loc, r)
      [] name = "get_org_project" ->
           getOrgProject(ArgStr(a.org), ArgNum(a.project_number), n, loc, r)
      [] name = "update_org_project" ->
           updateOrgProject(ArgStr(a.org), ArgNum(a.project_number), Rest(a, {"org", "project_number"}),
               n, loc, r)
      [] name = "delete_org_project" ->
           deleteOrgProject(ArgStr(a.org), ArgNum(a.project_number), n, loc, r)
      [] name = "list_org_project_columns" ->
           listOrgProjectColumns(ArgStr(a.org), ArgNum(a.project_number), Rest(a, {"org", "project_number"}),
               n, loc, r)
      [] name = "create_org_project_column" ->
           createOrgProjectColumn(ArgStr(a.org), ArgNum(a.project_number), Rest(a, {"org", "project_number"}),
               n, loc, r)
      [] name = "update_org_project_column" ->
           updateOrgProjectColumn(ArgStr(a.org), ArgNum(a.project_number), ArgNum(a.column_id), Rest(a, {"org", "project_number", "column_id"}),
               n, loc, r)
      [] name = "delete_org_project_column" ->
           deleteOrgProjectColumn(ArgStr(a.org), ArgNum(a.project_number), ArgNum(a.column_id),
               n, loc, r)
      [] name = "list_org_project_cards" ->
           listOrgProjectCards(ArgStr(a.org), ArgNum(a.project_number), ArgNum(a.column_id), Rest(a, {"org", "project_number", "column_id"}),
               n, loc, r)
      [] name = "create_org_project_card" ->
           createOrgProjectCard(ArgStr(a.org), ArgNum(a.project_number), ArgNum(a.column_id), Rest(a, {"org", "project_number", "column_id"}),
               n, loc, r)
      [] name = "update_org_project_card" ->
           updateOrgProjectCard(ArgStr(a.org), ArgNum(a.project_number), ArgNum(a.card_id), Rest(a, {"org", "project_number", "card_id"}),
               n, loc, r)
      [] name = "delete_org_project_card" ->
           deleteOrgProjectCard(ArgStr(a.org), ArgNum(a.project_number), ArgNum(a.card_id),
               n, loc, r)
      [] name = "move_org_project_card" ->
           moveOrgProjectCard(ArgStr(a.org), ArgNum(a.project_number), ArgNum(a.card_id), a.position, a.column_id,
               n, loc, r)

\* a plausible slip: the rate-limit message leaves out the reset time
formatGitHubError_noReset(error) ==
    CASE error.class = "GitHubValidationError" -> "Validation Error: " \o error.message
      [] error.class = "GitHubResourceNotFoundError" -> "Not Found: " \o error.message
      [] error.class = "GitHubAuthenticationError" -> "Authentication Failed: " \o error.message
      [] error.class = "GitHubPermissionError" -> "Permission Denied: " \o error.message
      [] error.class = "GitHubRateLimitError" -> "Rate Limit Exceeded: " \o error.message
      [] error.class = "GitHubConflictError" -> "Conflict: " \o error.message
      [] OTHER -> "GitHub API Error: " \o error.message

formatGitHubError(error) ==
    CASE error.class = "GitHubValidationError" -> "Validation Error: " \o error.message
      [] error.class = "GitHubResourceNotFoundError" -> "Not Found: " \o error.message
      [] error.class = "GitHubAuthenticationError" -> "Authentication Failed: " \o error.message
      [] error.class = "GitHubPermissionError" -> "Permission Denied: " \o error.message
      [] error.class = "GitHubRateLimitError" ->
           "Rate Limit Exceeded: " \o error.message \o " Resets at: <resetAt>"
      [] error.class = "GitHubConflictError" -> "Conflict: " \o error.message
      [] OTHER -> "GitHub API Error: " \o error.message

\* the catch block of the handler
HandlerCatch(error) ==
    IF error.class = "ZodError" THEN Throw("Error", "Invalid input: " \o error.message)
    ELSE IF error.class \in GitHubErrorClasses THEN Throw("Error", formatGitHubError(error))
    ELSE error

\* what a case returns once its operation has returned
HandlerReturn(name, value) ==
    Return([k |-> "text",
            json |-> IF name \in SuccessTools THEN "success" :> JsBool(TRUE) ELSE value])

\* a plausible slip: the arguments are handed to the operation without parsing them
CallToolRequestSchema_noParse(request, n, loc, r) ==
    LET step ==
            IF n = 0 /\ ~request.given THEN Finish(Throw("Error", "Arguments are required"))
            ELSE IF request.name \notin Tools
                 THEN Finish(Throw("Error", "Unknown tool: " \o request.name))
            ELSE CallOperation(request.name, request.args, n, loc, r)
    IN  IF ~step.done THEN step
        ELSE IF step.completion.type = "throw" THEN Finish(HandlerCatch(step.completion))
        ELSE Finish(HandlerReturn(request.name, step.completion.value))

\* a plausible slip: move_project_card returns what the operation returned
CallToolRequestSchema_moveValue(request, n, loc, r) ==
    LET step ==
            IF n = 0 /\ ~request.given THEN Finish(Throw("Error", "Arguments are required"))
            ELSE IF request.name \notin Tools
                 THEN Finish(Throw("Error", "Unknown tool: " \o request.name))
            ELSE IF n = 0 /\ Issues(ToolSchema(request.name), request.args) # {}
                 THEN Finish(Throw("ZodError",
                                   IssuesText(ToolSchema(request.name), request.args, 1)))
            ELSE CallOperation(request.name, request.args, n, loc, r)
    IN  IF ~step.done THEN step
        ELSE IF step.completion.type = "throw" THEN Finish(HandlerCatch(step.completion))
        ELSE Finish(Return([k |-> "text", json |-> step.completion.value]))

\* server.setRequestHandler(CallToolRequestSchema, ...): one step of the handler
CallToolRequestSchema(request, n, loc, r) ==
    LET step ==
            IF n = 0 /\ ~request.given THEN Finish(Throw("Error", "Arguments are required"))
            ELSE IF request.name \notin Tools
                 THEN Finish(Throw("Error", "Unknown tool: " \o request.name))
            ELSE IF n = 0 /\ Issues(ToolSchema(request.name), request.args) # {}
                 THEN Finish(Throw("ZodError",
                                   IssuesText(ToolSchema(request.name), request.args, 1)))
            ELSE CallOperation(request.name, request.args, n, loc, r)
    IN  IF ~step.done THEN step
        ELSE IF step.completion.type = "throw" THEN Finish(HandlerCatch(step.completion))
        ELSE Finish(HandlerReturn(request.name, step.completion.value))

----------------------------------------------------------------------------
(* The inputs of the model *)

\* the values a caller may give for a field: ones the schema accepts ...
Good(field) ==
    (IF field.optional THEN {JsUndef} ELSE {}) \cup
    (CASE field.type = "string" -> {JsStr("x")}
       [] field.type = "boolean" -> {JsBool(TRUE)}
       [] field.type = "enum" -> {JsStr(v) : v \in field.values}
       [] field.name = "project_number" -> {JsNum(i) : i \in 1..MaxNumber}
       [] field.name = "column_id" -> {JsNum(0), JsNum(1)}
       [] field.name = "per_page" -> {JsNum(10)}
       [] field.name = "page" -> {JsNum(2)}
       [] OTHER -> {JsNum(1)})

\* ... and ones it rejects
Bad(field) ==
    {JsNull} \cup
    (IF field.optional THEN {} ELSE {JsUndef}) \cup
    (IF field.type = "enum" THEN {JsStr("bogus")} ELSE {})

\* the argument objects over the fields i..Len(schema), at most `bad` of them rejected
RECURSIVE ArgumentObjects(_, _, _)
ArgumentObjects(schema, i, bad) ==
    IF i > Len(schema) THEN {EmptyObj}
    ELSE {(schema[i].name :> v) @@ rest :
              v \in Good(schema[i]), rest \in ArgumentObjects(schema, i + 1, bad)}
         \cup
         (IF bad = 0 THEN {}
          ELSE {(schema[i].name :> v) @@ rest :
                    v \in Bad(schema[i]), rest \in ArgumentObjects(schema, i + 1, bad - 1)})

V2Operations ==
    {"listOrgProjectsV2", "createOrgProjectV2", "listRepoProjectsV2", "createRepoProjectV2",
     "getProjectV2", "updateProjectV2", "deleteProjectV2", "listProjectFieldsV2",
     "listProjectItemsV2", "addProjectDraftIssueV2", "addProjectItemByIdV2",
     "updateProjectItemFieldValueV2", "deleteProjectItemV2"}

\* the options a caller may give to a current-model operation (typed by its input schema)
V2Options(op) ==
    CASE op = "listOrgProjectsV2" ->
           [orgLogin : {JsStr("org")}, first : {JsUndef, JsNum(0), JsNum(5)}, after : {JsUndef, JsStr("cursor")}]
      [] op = "createOrgProjectV2" -> [orgLogin : {JsStr("org")}, title : {JsStr("t")}]
      [] op = "listRepoProjectsV2" ->
           [ownerLogin : {JsStr("own")}, repoName : {JsStr("rep")}, first : {JsUndef, JsNum(0), JsNum(5)},
            after : {JsUndef, JsStr("cursor")}]
      [] op = "createRepoProjectV2" ->
           [ownerLogin : {JsStr("own")}, repoName : {JsStr("rep")}, title : {JsStr("t")}]
      [] op \in {"getProjectV2", "deleteProjectV2"} -> [projectId : {JsStr("P1")}]
      [] op = "updateProjectV2" ->
           [projectId : {JsStr("P1")}, title : {JsUndef, JsStr("t")},
            readme : {JsUndef, JsStr("r")}, closed : {JsUndef, JsBool(TRUE)}]
      [] op \in {"listProjectFieldsV2", "listProjectItemsV2"} ->
           [projectId : {JsStr("P1")}, first : {JsUndef, JsNum(0), JsNum(5)}, after : {JsUndef, JsStr("cursor")}]
      [] op = "addProjectDraftIssueV2" ->
           [projectId : {JsStr("P1")}, title : {JsStr("t")}, body : {JsUndef, JsStr("b")}]
      [] op = "addProjectItemByIdV2" -> [projectId : {JsStr("P1")}, contentId : {JsStr("I1")}]
      [] op = "updateProjectItemFieldValueV2" ->
           [projectId : {JsStr("P1")}, itemId : {JsStr("I1")}, fieldId : {JsStr("F1")},
            value : {[t |-> "object", s |-> "singleSelectOptionId"]}]
      [] OTHER -> [projectId : {JsStr("P1")}, itemId : {JsStr("I1")}]

\* one step of a current-model operation called by name
V2Operation(op, options, n, loc, r) ==
    CASE op = "listOrgProjectsV2" -> listOrgProjectsV2(options, n, loc, r)
      [] op = "createOrgProjectV2" -> createOrgProjectV2(options, n, loc, r)
      [] op = "listRepoProjectsV2" -> listRepoProjectsV2(options, n, loc, r)
      [] op = "createRepoProjectV2" -> createRepoProjectV2(options, n, loc, r)
      [] op = "getProjectV2" -> getProjectV2(options, n, loc, r)
      [] op = "updateProjectV2" -> updateProjectV2(options, n, loc, r)
      [] op = "deleteProjectV2" -> deleteProjectV2(options, n, loc, r)
      [] op = "listProjectFieldsV2" -> listProjectFieldsV2(options, n, loc, r)
      [] op = "listProjectItemsV2" -> listProjectItemsV2(options, n, loc, r)
      [] op = "addProjectDraftIssueV2" -> addProjectDraftIssueV2(options, n, loc, r)
      [] op = "addProjectItemByIdV2" -> addProjectItemByIdV2(options, n, loc, r)
      [] op = "updateProjectItemFieldValueV2" ->
           updateProjectItemFieldValueV2(options, n, loc, r)
      [] OTHER -> deleteProjectItemV2(options, n, loc, r)

----------------------------------------------------------------------------
(* The state machine *)

NoCall == [via |-> "none", name |-> "", given |-> FALSE, args |-> EmptyObj]

\* an invocation slot in which nothing runs
NoInvocation ==
    [pc |-> "idle", call |-> NoCall, sent |-> <<>>, answered |-> 0, resp |-> NoResponse,
     locals |-> NoLocals, outcome |-> NoOutcome]

Init ==
    /\ pc = "idle"
    /\ call = NoCall
    /\ sent = <<>>
    /\ answered = 0
    /\ resp = NoResponse
    /\ locals = NoLocals
    /\ outcome = NoOutcome
    /\ other = NoInvocation
    /\ walk = [op |-> "", items |-> <<>>, seen |-> <<>>, cursor |-> JsUndef, more |-> FALSE,
               started |-> FALSE]
    /\ remote = [projects |-> <<>>, columns |-> {}]

\* one step of the invocation c: of the handler, or of the operation called directly
RunStep(c, n, loc, r) ==
    IF c.via = "handler" THEN CallToolRequestSchema(c, n, loc, r)
    ELSE V2Operation(c.name, c.args, n, loc, r)

\* the step ended the invocation, or left a request in flight
Advance(step) ==
    IF step.done
    THEN /\ pc' = "done"
         /\ outcome' = step.completion
         /\ UNCHANGED <<sent, locals>>
    ELSE /\ pc' = "await"
         /\ sent' = Append(sent, step.send)
         /\ locals' = step.locals
         /\ UNCHANGED outcome

\* a tool call arrives at the handler and runs to its first await (or to its end)
Invoke(name, given, a) ==
    /\ pc = "idle"
    /\ call' = [via |-> "handler", name |-> name, given |-> given, args |-> a]
    /\ Advance(RunStep(call', 0, NoLocals, NoResponse))
    /\ UNCHANGED <<answered, resp, other, walk, remote>>

\* a current-model operation function is called and runs to its first await
CallV2(op, options) ==
    /\ pc = "idle"
    /\ call' = [via |-> "direct", name |-> op, given |-> TRUE, args |-> options]
    /\ Advance(RunStep(call', 0, NoLocals, NoResponse))
    /\ UNCHANGED <<answered, resp, other, walk, remote>>

\* the awaited response arrives and the invocation runs to its next await (or to its end)
Receive(r) ==
    /\ pc = "await"
    /\ r.transport = sent[Len(sent)].transport
    /\ resp' = r
    /\ answered' = answered + 1
    /\ Advance(RunStep(call, answered + 1, locals, r))
    /\ UNCHANGED <<call, other, walk>>

\* the caller takes the outcome; the gateway keeps nothing of the invocation
Finished ==
    /\ pc = "done"
    /\ pc' = "idle"
    /\ call' = NoCall
    /\ sent' = <<>>
    /\ answered' = 0
    /\ resp' = NoResponse
    /\ locals' = NoLocals
    /\ outcome' = NoOutcome
    /\ UNCHANGED <<other, walk, remote>>

\* the tool calls a caller may make: without arguments, with an argument object
\* built from the tool's input schema, or of a tool the server does not have
ToolCalls ==
    {[name |-> name, given |-> FALSE, args |-> EmptyObj] : name \in Tools \cup {"unknown_tool"}}
    \cup {[name |-> "unknown_tool", given |-> TRUE, args |-> EmptyObj]}
    \cup UNION {{[name |-> name, given |-> TRUE, args |-> a] :
                     a \in ArgumentObjects(ToolSchema(name), 1, MaxBad)} : name \in Tools}

\* the calls a caller may make while the gateway is idle
Calls ==
    /\ pc = "idle"
    /\ \/ \E c \in ToolCalls : Invoke(c.name, c.given, c.args)
       \/ \E op \in V2Operations : \E options \in V2Options(op) : CallV2(op, options)

\* the remote system answers the request in flight
Responses ==
    /\ pc = "await"
    /\ \E r \in GqlResponses \cup RestResponses : Receive(r)
    /\ UNCHANGED remote

Next ==
    \/ Calls
    \/ Responses
    \/ Finished

Spec == Init /\ [][Next]_vars

----------------------------------------------------------------------------
(* Properties of the current-model operations and of the GraphQL helper *)

\* the operation function `op` was called directly
DirectCall(op) == call.via = "direct" /\ call.name = op

\* the names of the queries sent so far, in the order they were sent
Queries == [i \in 1..Len(sent) |-> sent[i].query]

\* the errors member of the body is a list with at least one element
HasErrors(body) == body.errors.k = "list" /\ body.errors.list # <<>>

\* r is a 2xx response whose envelope parses and whose errors list is populated
PopulatedErrors(r) ==
    r.status = 200 /\ GraphQLResponseSchema(r.body) /\ HasErrors(r.body)

\* r is a 2xx response {data: null} whose errors are absent or empty
NullData(r) ==
    /\ r.status = 200
    /\ GraphQLResponseSchema(r.body)
    /\ r.body.data.k = "null"
    /\ ~HasErrors(r.body)

\* r answers an identifier lookup with an entity: no transport error, no GraphQL
\* error, and the entity asked for is not null
Resolves(r) ==
    /\ r.status = 200
    /\ GraphQLResponseSchema(r.body)
    /\ ~HasErrors(r.body)
    /\ r.body.data.k = "object"
    /\ r.body.data.top.k = "object"

\* C1: createOrgProjectV2 sends the organization-id lookup first, and the
\* createProjectV2 mutation only once that lookup has been answered with an
\* organization; when the lookup fails (transport error, GraphQL error, or an
\* organization that is null) the operation ends in an error and nothing is sent
\* after the lookup.
C1_LookupBeforeMutation ==
    DirectCall("createOrgProjectV2") =>
        /\ Queries \in {<<"GetOrgId">>, <<"GetOrgId", "CreateOrgProjectV2">>}
        /\ answered = 0 => Len(sent) = 1 /\ pc = "await"
        /\ answered = 1 =>
              IF Resolves(resp)
              THEN Len(sent) = 2 /\ pc = "await"
              ELSE Len(sent) = 1 /\ pc = "done" /\ outcome.type = "throw"
        /\ answered >= 2 => answered = 2 /\ Len(sent) = 2 /\ pc = "done"

\* the organization resolved to null: the operation has ended with one request sent
C1_Witness ==
    /\ DirectCall("createOrgProjectV2")
    /\ answered = 1
    /\ resp.status = 200
    /\ GraphQLResponseSchema(resp.body)
    /\ ~HasErrors(resp.body)
    /\ resp.body.data.k = "object"
    /\ resp.body.data.top.k = "null"
    /\ pc = "done"
    /\ outcome = Throw("Error", "Organization not found: org")
    /\ Queries = <<"GetOrgId">>

\* C2: createRepoProjectV2 sends the owner-id lookup, then the repository-id
\* lookup, then the createProjectV2 mutation, each only once the one before it
\* has been answered with an entity; a lookup that fails ends the operation in
\* an error at once, so a failed owner lookup also prevents the repository lookup.
C2_FixedLookupOrder ==
    DirectCall("createRepoProjectV2") =>
        /\ Queries \in {<<"GetRepoOwnerId">>, <<"GetRepoOwnerId", "GetRepoId">>,
                        <<"GetRepoOwnerId", "GetRepoId", "CreateRepoProjectV2">>}
        /\ answered = 0 => Len(sent) = 1 /\ pc = "await"
        /\ answered \in {1, 2} =>
              IF Resolves(resp)
              THEN Len(sent) = answered + 1 /\ pc = "await"
              ELSE Len(sent) = answered /\ pc = "done" /\ outcome.type = "throw"
        /\ answered >= 3 => answered = 3 /\ Len(sent) = 3 /\ pc = "done"

\* both identifiers resolved and the mutation is in flight with them
C2_Witness ==
    /\ DirectCall("createRepoProjectV2")
    /\ answered = 2
    /\ pc = "await"
    /\ Queries = <<"GetRepoOwnerId", "GetRepoId", "CreateRepoProjectV2">>
    /\ DOMAIN sent[3].payload = {"ownerId", "repositoryId", "title"}
    /\ sent[3].payload["ownerId"] = JsStr("N1")
    /\ sent[3].payload["repositoryId"] = JsStr("N1")

\* C3: when a response's envelope parses and its errors list is not empty, the
\* operation that awaited githubGraphQLRequest fails with "GraphQL Error: "
\* followed by the first error's message, returns nothing and sends nothing
\* more, also when data is not null.
C3_ErrorsListFails ==
    (call.via = "direct" /\ answered >= 1 /\ PopulatedErrors(resp)) =>
        /\ pc = "done"
        /\ outcome = Throw("Error", "GraphQL Error: " \o resp.body.errors.list[1].message)
        /\ Len(sent) = answered

\* partial data: a conforming entity together with two errors
C3_Witness ==
    /\ call.via = "direct"
    /\ answered >= 1
    /\ PopulatedErrors(resp)
    /\ Len(resp.body.errors.list) = 2
    /\ resp.body.errors.list[1].message # resp.body.errors.list[2].message
    /\ resp.body.data.k = "object"
    /\ resp.body.data.top.k = "object"
    /\ resp.body.data.inner.k = "object"
    /\ resp.body.data.inner.ok
    /\ pc = "done"
    /\ outcome.type = "throw"

\* C4: a response {data: null} with errors absent or empty makes the operation
\* fail with the null-data message, and no response with a populated errors
\* list makes githubGraphQLRequest fail with that message.
C4_NullDataDistinct ==
    (call.via = "direct" /\ answered >= 1 /\ NullData(resp)) =>
        /\ pc = "done"
        /\ outcome = Throw("Error", NullDataMessage)
        /\ \A r \in GqlResponses :
              PopulatedErrors(r) => githubGraphQLRequest(r).message # outcome.message

\* data is null and the errors list is there but empty
C4_Witness ==
    /\ call.via = "direct"
    /\ answered >= 1
    /\ NullData(resp)
    /\ resp.body.errors.k = "list"
    /\ pc = "done"
    /\ outcome.message = NullDataMessage

\* C5: a 2xx response that does not match the envelope makes the operation fail
\* with the parse-failure message; nothing of the response is returned and
\* nothing more is sent.
C5_MalformedEnvelopeFails ==
    (call.via = "direct" /\ answered >= 1 /\ resp.status = 200
        /\ ~GraphQLResponseSchema(resp.body)) =>
        /\ pc = "done"
        /\ outcome = Throw("Error", ParseFailedMessage(resp.body))
        /\ Len(sent) = answered

\* errors is null beside data that would have conformed
C5_Witness ==
    /\ call.via = "direct"
    /\ answered >= 1
    /\ resp.status = 200
    /\ resp.body.shape = "object"
    /\ resp.body.errors.k = "null"
    /\ resp.body.data.k = "object"
    /\ resp.body.data.top.k = "object"
    /\ resp.body.data.inner.k = "object"
    /\ resp.body.data.inner.ok
    /\ pc = "done"
    /\ outcome.type = "throw"

----------------------------------------------------------------------------
(* Properties of the call handler and of the invocations as a whole *)

\* a tool call with an argument object for a tool the server has
ToolCall == call.via = "handler" /\ call.given /\ call.name \in Tools

\* C6: the handler parses the arguments against the tool's input schema before
\* it calls the operation: when the parse rejects them the invocation ends with
\* the "Invalid input" error that lists the rejected fields and no request has
\* been made; the operation's first request is made only for arguments that parse.
C6_ParseBeforeOperation ==
    ToolCall =>
        IF Issues(ToolSchema(call.name), call.args) # {}
        THEN /\ pc = "done"
             /\ sent = <<>>
             /\ answered = 0
             /\ outcome = Throw("Error", "Invalid input: "
                                \o IssuesText(ToolSchema(call.name), call.args, 1))
        ELSE sent # <<>>

\* two fields of the arguments of update_project are rejected
C6_Witness ==
    /\ ToolCall
    /\ call.name = "update_project"
    /\ Cardinality(Issues(UpdateProjectSchema, call.args)) = 2
    /\ call.args["owner"] = JsStr("x")
    /\ pc = "done"
    /\ sent = <<>>
    /\ outcome.type = "throw"

\* the request that r answers failed: a status other than 2xx, or a GraphQL
\* response that githubGraphQLRequest turns into an error
RequestFailed(r) ==
    \/ r.status # 200
    \/ /\ r.transport = "graphql"
       /\ (~GraphQLResponseSchema(r.body) \/ HasErrors(r.body) \/ r.body.data.k # "object")

\* C7: within one invocation no request is sent twice, every request but the
\* one in flight has been answered, and a request that failed is the last one:
\* the invocation has ended in an error.
C7_NoRetry ==
    /\ \A i, j \in 1..Len(sent) : i # j => sent[i] # sent[j]
    /\ Len(sent) = IF pc = "await" THEN answered + 1 ELSE answered
    /\ (answered >= 1 /\ RequestFailed(resp)) =>
          pc = "done" /\ outcome.type = "throw"

\* update_project: the listing succeeded, the GET of the project failed, no PATCH
C7_Witness ==
    /\ ToolCall
    /\ call.name = "update_project"
    /\ answered = 2
    /\ resp.status = 404
    /\ pc = "done"
    /\ outcome.type = "throw"
    /\ Len(sent) = 2
    /\ sent[2].method = "GET"

\* C8 (as the specification states it): every value an operation function
\* returns has passed that operation's output schema (deleteProjectV2 returns
\* no value).
C8_EveryReturnValidated ==
    (call.via = "direct" /\ call.name # "deleteProjectV2" /\ pc = "done"
        /\ outcome.type = "return") =>
        outcome.value.k = "object" /\ outcome.value.ok

\* the closed set of error kinds
Kinds ==
    {"validation", "not-found", "authentication", "permission", "rate-limit", "conflict",
     "protocol", "unknown"}

\* s begins with p
StartsWith(s, p) == Len(s) >= Len(p) /\ SubSeq(s, 1, Len(p)) = p

\* the kind an error carries to the caller: that of its class, or for the plain
\* Error the handler makes in its catch block the kind its message is labelled
\* with; the messages of githubGraphQLRequest are read as protocol errors.  A
\* plain Error without any of these carries no kind.
KindOf(error) ==
    CASE error.class = "ZodError" -> "validation"
      [] error.class = "GitHubValidationError" -> "validation"
      [] error.class = "GitHubResourceNotFoundError" -> "not-found"
      [] error.class = "GitHubAuthenticationError" -> "authentication"
      [] error.class = "GitHubPermissionError" -> "permission"
      [] error.class = "GitHubRateLimitError" -> "rate-limit"
      [] error.class = "GitHubConflictError" -> "conflict"
      [] error.class = "GitHubError" -> "unknown"
      [] error.class = "Error" /\ StartsWith(error.message, "Invalid input: ") -> "validation"
      [] error.class = "Error" /\ StartsWith(error.message, "Validation Error: ") ->
           "validation"
      [] error.class = "Error" /\ StartsWith(error.message, "Not Found: ") -> "not-found"
      [] error.class = "Error" /\ StartsWith(error.message, "Authentication Failed: ") ->
           "authentication"
      [] error.class = "Error" /\ StartsWith(error.message, "Permission Denied: ") ->
           "permission"
      [] error.class = "Error" /\ StartsWith(error.message, "Rate Limit Exceeded: ") ->
           "rate-limit"
      [] error.class = "Error" /\ StartsWith(error.message, "Conflict: ") -> "conflict"
      [] error.class = "Error" /\ StartsWith(error.message, "GitHub API Error: ") -> "unknown"
      [] error.class = "Error" /\ StartsWith(error.message, "GraphQL Error: ") -> "protocol"
      [] error.class = "Error" /\ error.message = NullDataMessage -> "protocol"
      [] error.class = "Error"
         /\ StartsWith(error.message, "Failed to parse GraphQL response.") -> "protocol"
      [] OTHER -> "none"

\* C9 (as the specification states it): every outcome of a board operation that
\* is not a success reaches the caller as an error whose kind is one of the
\* closed set.
C9_EveryFailureTyped ==
    ((ToolCall \/ call.via = "direct") /\ pc = "done" /\ outcome.type = "throw") =>
        KindOf(outcome) \in Kinds

\* {success: true}
SuccessOnly(v) == DOMAIN v = {"success"} /\ v["success"] = JsBool(TRUE)

\* a move of a legacy card that succeeded
MoveSucceeded ==
    /\ ToolCall
    /\ call.name \in {"move_project_card", "move_org_project_card"}
    /\ pc = "done"
    /\ outcome.type = "return"

\* an update of a current-model item's field value that succeeded
UpdateValueSucceeded ==
    /\ DirectCall("updateProjectItemFieldValueV2")
    /\ pc = "done"
    /\ outcome.type = "return"

\* C10 (as the specification states it): a successful move of a legacy card and
\* a successful update of a current-model item's field value both report exactly
\* {success: true}.
C10_BothReportSuccessOnly ==
    /\ MoveSucceeded => SuccessOnly(outcome.value.json)
    /\ UpdateValueSucceeded => SuccessOnly(outcome.value)

\* C10 (amended): a successful move of a legacy card reports exactly
\* {success: true}; a successful update of a current-model item's field value
\* reports the projectV2Item of the response as it came, which is not {success: true}.
C10_MoveReportsSuccessOnly ==
    /\ MoveSucceeded => outcome.value.k = "text" /\ SuccessOnly(outcome.value.json)
    /\ UpdateValueSucceeded =>
          outcome.value = resp.body.data.inner /\ ~SuccessOnly(outcome.value)

\* move_org_project_card has succeeded after its one request
C10_Witness ==
    /\ MoveSucceeded
    /\ call.name = "move_org_project_card"
    /\ answered = 1
    /\ resp.status = 200
    /\ Len(sent) = 1
    /\ sent[1].method = "POST"

----------------------------------------------------------------------------
(* Properties of the reported errors *)

\* p occurs in s
Contains(s, p) ==
    \E i \in 1..(Len(s) + 1) :
        i + Len(p) - 1 <= Len(s) /\ SubSeq(s, i, i + Len(p) - 1) = p

\* C11: when the arguments of a tool call violate several field constraints,
\* the "Invalid input" error names every rejected field, not only the first.
C11_EveryIssueListed ==
    (ToolCall /\ Issues(ToolSchema(call.name), call.args) # {}) =>
        /\ pc = "done"
        /\ outcome.type = "throw"
        /\ StartsWith(outcome.message, "Invalid input: ")
        /\ \A i \in Issues(ToolSchema(call.name), call.args) :
              Contains(outcome.message, "{path:" \o ToolSchema(call.name)[i].name \o "}")

\* create_project_card with a null column_id and a content_type outside the enum
C11_Witness ==
    /\ ToolCall
    /\ call.name = "create_project_card"
    /\ call.args["column_id"] = JsNull
    /\ call.args["content_type"] = JsStr("bogus")
    /\ Cardinality(Issues(CreateProjectCardSchema, call.args)) = 2
    /\ pc = "done"
    /\ Contains(outcome.message, "{path:column_id}")
    /\ Contains(outcome.message, "{path:content_type}")

\* the labels the handler writes in front of the message of an error it formats
KindLabels ==
    {"Invalid input: ", "Validation Error: ", "Not Found: ", "Authentication Failed: ",
     "Permission Denied: ", "Rate Limit Exceeded: ", "Conflict: ", "GitHub API Error: "}

\* C12: a failed response of a resource-style endpoint is reported under the one
\* kind its status gives: 404 not-found, 403 permission, 429 rate-limit, and
\* the rate-limit error carries the reset time.
C12_KindByStatus ==
    (ToolCall /\ answered >= 1 /\ resp.transport = "rest" /\ resp.status # 200) =>
        /\ pc = "done"
        /\ outcome.type = "throw"
        /\ Cardinality({l \in KindLabels : StartsWith(outcome.message, l)}) = 1
        /\ resp.status = 404 => KindOf(outcome) = "not-found"
        /\ resp.status = 403 => KindOf(outcome) = "permission"
        /\ resp.status = 429 =>
              KindOf(outcome) = "rate-limit" /\ Contains(outcome.message, "Resets at: ")

\* list_project_cards was answered 429
C12_Witness ==
    /\ ToolCall
    /\ call.name = "list_project_cards"
    /\ answered = 1
    /\ resp.status = 429
    /\ pc = "done"
    /\ StartsWith(outcome.message, "Rate Limit Exceeded: ")
    /\ Contains(outcome.message, "Resets at: ")

----------------------------------------------------------------------------
(* Properties of the identifier resolvers *)

\* what the resolver an operation awaits makes of the response it has received
Resolved ==
    CASE DirectCall("createOrgProjectV2") /\ answered = 1 ->
           getOrganizationNodeId(call.args.orgLogin.s, resp)
      [] DirectCall("createRepoProjectV2") /\ answered = 1 ->
           getRepositoryOwnerNodeId(call.args.ownerLogin.s, resp)
      [] DirectCall("createRepoProjectV2") /\ answered = 2 ->
           getRepositoryNodeId(call.args.ownerLogin.s, call.args.repoName.s, resp)
      [] OTHER -> NoOutcome

\* C13 (as the specification states it): each identifier resolver returns the
\* identifier contained in the lookup response, or fails with a "not found"
\* error when the entity is null; it never returns an absent or empty
\* identifier, so none reaches the request that follows.
C13_ResolverReturnsIdentifier ==
    Resolved.type # "none" =>
        /\ Resolves(resp) => Resolved.type = "return"
        /\ Resolved.type = "return" =>
              /\ Resolved.value = resp.body.data.top.id
              /\ Resolved.value \notin {Undefined, ""}
        /\ (resp.status = 200 /\ GraphQLResponseSchema(resp.body) /\ ~HasErrors(resp.body)
              /\ resp.body.data.k = "object" /\ resp.body.data.top.k = "null") =>
              Resolved.type = "throw" /\ Contains(Resolved.message, "not found")

----------------------------------------------------------------------------
(* Two invocations in flight: the handler and the operation functions are   *)
(* async functions, so a second invocation may run while the first is       *)
(* suspended at an await                                                    *)

\* the invocation that is running, as a record
Current ==
    [pc |-> pc, call |-> call, sent |-> sent, answered |-> answered, resp |-> resp,
     locals |-> locals, outcome |-> outcome]

\* the running invocation is suspended and the other one goes on
Switch ==
    /\ other' = Current
    /\ pc' = other.pc
    /\ call' = other.call
    /\ sent' = other.sent
    /\ answered' = other.answered
    /\ resp' = other.resp
    /\ locals' = other.locals
    /\ outcome' = other.outcome
    /\ UNCHANGED <<walk, remote>>

\* the answers of the remote system while two invocations are in flight: a
\* status 404, a GraphQL error, or data with an entity (with id "N1", with id
\* "", without id, or null) and in it a project, or none
ConcurrentResponses ==
    {r \in GqlResponses :
        \/ r.status = 404
        \/ /\ r.status = 200
           /\ r.body.shape = "object"
           /\ r.body.data.k = "null"
           /\ r.body.errors.k = "list"
           /\ r.body.errors.list = <<[hasMessage |-> TRUE, message |-> "boom"]>>
        \/ /\ r.status = 200
           /\ r.body.shape = "object"
           /\ r.body.errors.k = "undefined"
           /\ r.body.data.k = "object"
           /\ r.body.data.top \in
                 {NullEnt, [k |-> "object", id |-> Undefined, ok |-> FALSE],
                  [k |-> "object", id |-> "", ok |-> TRUE],
                  [k |-> "object", id |-> "N1", ok |-> TRUE]}
           /\ r.body.data.inner \in {NoEnt, [k |-> "object", id |-> "N1", ok |-> TRUE]}}

\* the operations that resolve identifiers are called
ConcurrentCalls ==
    /\ pc = "idle"
    /\ \E op \in {"createOrgProjectV2", "createRepoProjectV2"} :
          \E options \in V2Options(op) : CallV2(op, options)

ConcurrentReceive ==
    /\ pc = "await"
    /\ \E r \in ConcurrentResponses : Receive(r)
    /\ UNCHANGED remote

NextConcurrent ==
    \/ ConcurrentCalls
    \/ ConcurrentReceive
    \/ Finished
    \/ Switch

SpecConcurrent == Init /\ [][NextConcurrent]_vars

\* the names of the queries the invocation s has sent
QueriesOf(s) == [i \in 1..Len(s.sent) |-> s.sent[i].query]

\* the requests and the result of a createOrgProjectV2 invocation s are those
\* its own arguments and the responses it received determine
OwnOrgProject(s) ==
    LET a == s.call.args
    IN  /\ QueriesOf(s) \in {<<"GetOrgId">>, <<"GetOrgId", "CreateOrgProjectV2">>}
        /\ s.sent[1].payload = ("login" :> a.orgLogin)
        /\ Len(s.sent) = IF s.pc = "await" THEN s.answered + 1 ELSE s.answered
        /\ s.answered = 1 =>
              LET id == getOrganizationNodeId(a.orgLogin.s, s.resp)
              IN  IF id.type = "throw" THEN s.pc = "done" /\ s.outcome = id
                  ELSE /\ s.pc = "await"
                       /\ s.sent[2].payload =
                             Defined(("organizationId" :> JsId(s.resp.body.data.top.id))
                                     @@ ("title" :> a.title))
        /\ s.answered = 2 =>
              s.pc = "done" /\ s.outcome = ParsedInner(githubGraphQLRequest(s.resp))

\* the same for a createRepoProjectV2 invocation s
OwnRepoProject(s) ==
    LET a == s.call.args
    IN  /\ QueriesOf(s) \in {<<"GetRepoOwnerId">>, <<"GetRepoOwnerId", "GetRepoId">>,
                             <<"GetRepoOwnerId", "GetRepoId", "CreateRepoProjectV2">>}
        /\ s.sent[1].payload = ("login" :> a.ownerLogin)
        /\ Len(s.sent) = IF s.pc = "await" THEN s.answered + 1 ELSE s.answered
        /\ Len(s.sent) >= 2 =>
              s.sent[2].payload = (("owner" :> a.ownerLogin) @@ ("name" :> a.repoName))
        /\ s.answered = 1 =>
              LET id == getRepositoryOwnerNodeId(a.ownerLogin.s, s.resp)
              IN  IF id.type = "throw" THEN s.pc = "done" /\ s.outcome = id
                  ELSE s.pc = "await" /\ s.locals.ownerId = s.resp.body.data.top.id
        /\ s.answered = 2 =>
              LET id == getRepositoryNodeId(a.ownerLogin.s, a.repoName.s, s.resp)
              IN  IF id.type = "throw" THEN s.pc = "done" /\ s.outcome = id
                  ELSE /\ s.pc = "await"
                       /\ s.sent[3].payload =
                             Defined(("ownerId" :> JsId(s.locals.ownerId))
                                     @@ ("repositoryId" :> JsId(s.resp.body.data.top.id))
                                     @@ ("title" :> a.title))
        /\ s.answered = 3 =>
              s.pc = "done" /\ s.outcome = ParsedInner(githubGraphQLRequest(s.resp))

\* an idle slot holds nothing of an invocation that has ended
Own(s) ==
    CASE s.call.name = "createOrgProjectV2" -> OwnOrgProject(s)
      [] s.call.name = "createRepoProjectV2" -> OwnRepoProject(s)
      [] OTHER -> s = NoInvocation

\* C14: with two invocations interleaved in any way, each one sends its own
\* identifier lookups (nothing is reused from the other or from an invocation
\* that has ended), and its requests and its result are those its own
\* arguments and the responses it received determine.
C14_NoSharedState == Own(Current) /\ Own(other)

\* both invocations create a project in the same repository: the suspended one
\* has resolved the owner to "N1", the running one has just resolved it to ""
C14_Witness ==
    /\ call.name = "createRepoProjectV2"
    /\ other.call.name = "createRepoProjectV2"
    /\ other.pc = "await"
    /\ other.answered = 1
    /\ other.locals.ownerId = "N1"
    /\ pc = "await"
    /\ answered = 1
    /\ locals.ownerId = ""
    /\ QueriesOf(Current) = <<"GetRepoOwnerId", "GetRepoId">>

----------------------------------------------------------------------------
(* Paging of the current-model listings *)

V2Listings ==
    {"listOrgProjectsV2", "listRepoProjectsV2", "listProjectFieldsV2", "listProjectItemsV2"}

\* the running invocation is a current-model listing that has sent its request
ListingSent == call.via = "direct" /\ call.name \in V2Listings /\ Len(sent) >= 1

\* C15: every current-model listing sends first = 30 when the caller gives no
\* first, the caller's first unchanged otherwise, and the caller's after
\* cursor unchanged (no after when the caller gives none).
C15_FirstDefaultsAfterForwarded ==
    ListingSent =>
        /\ Len(sent) = 1
        /\ "first" \in DOMAIN sent[1].payload
        /\ sent[1].payload["first"] =
               (IF call.args.first = JsUndef THEN JsNum(30) ELSE call.args.first)
        /\ IF call.args.after = JsUndef
           THEN "after" \notin DOMAIN sent[1].payload
           ELSE /\ "after" \in DOMAIN sent[1].payload
                /\ sent[1].payload["after"] = call.args.after

\* an organization listing asked for a page of 0 entries after a cursor
C15_Witness ==
    /\ ListingSent
    /\ call.name = "listOrgProjectsV2"
    /\ call.args.first = JsNum(0)
    /\ call.args.after = JsStr("cursor")
    /\ sent[1].payload["first"] = JsNum(0)
    /\ sent[1].payload["after"] = JsStr("cursor")

----------------------------------------------------------------------------
(* A caller pages through an unchanging remote collection with a            *)
(* current-model listing: it calls the listing, takes nodes and pageInfo of *)
(* the result, and calls again with after = endCursor while hasNextPage     *)

\* the answer of the remote system to a listing query over `items`: the
\* connection {nodes, pageInfo, totalCount} of the `first` items that follow
\* the cursor `after` (from the start without one); the cursor of the item at
\* position p is "c<p>"
RemotePage(items, variables) ==
    LET Cursor(p) == "c" \o ToString(p)
        start == IF "after" \in DOMAIN variables /\ variables["after"].t = "string"
                    /\ \E p \in 0..Len(items) : Cursor(p) = variables["after"].s
                 THEN CHOOSE p \in 0..Len(items) : Cursor(p) = variables["after"].s
                 ELSE 0
        count == IF "first" \in DOMAIN variables /\ variables["first"].t = "number"
                 THEN variables["first"].n ELSE 0
        end == IF start + count < Len(items) THEN start + count ELSE Len(items)
        nodes == SubSeq(items, start + 1, end)
    IN  [transport |-> "graphql", status |-> 200,
         body |-> [shape |-> "object",
                   data |-> [k |-> "object",
                             top |-> [k |-> "object", id |-> "N1", ok |-> TRUE],
                             inner |-> [k |-> "object", id |-> Undefined, ok |-> TRUE,
                                        nodes |-> nodes,
                                        pageInfo |-> [endCursor |-> IF nodes = <<>> THEN JsNull
                                                                    ELSE JsStr(Cursor(end)),
                                                      hasNextPage |-> end < Len(items)],
                                        totalCount |-> Len(items)]],
                   errors |-> [k |-> "undefined", list |-> <<>>]]]

\* a caller is about to page through a collection of distinct items with one
\* of the four listings
InitTraversal ==
    /\ pc = "idle"
    /\ call = NoCall
    /\ sent = <<>>
    /\ answered = 0
    /\ resp = NoResponse
    /\ locals = NoLocals
    /\ outcome = NoOutcome
    /\ other = NoInvocation
    /\ remote = [projects |-> <<>>, columns |-> {}]
    /\ walk \in {[op |-> op, items |-> items, seen |-> <<>>, cursor |-> JsUndef,
                   more |-> TRUE, started |-> FALSE] :
                     op \in {"listOrgProjectsV2", "listRepoProjectsV2", "listProjectFieldsV2",
                             "listProjectItemsV2"},
                     items \in {q \in SeqsUpTo(1..MaxItems, MaxItems) :
                                  \A i, j \in 1..Len(q) : q[i] = q[j] => i = j}}

\* the caller asks for the next page: no first, or a page of 1 or 2, after the
\* cursor it holds
TraverseCall ==
    /\ walk.more
    /\ \E o \in V2Options(walk.op), first \in {JsUndef, JsNum(1), JsNum(2)} :
          CallV2(walk.op, [o EXCEPT !.first = first, !.after = walk.cursor])

\* the remote system answers the query over the collection
TraverseAnswer ==
    /\ pc = "await"
    /\ Receive(RemotePage(walk.items, sent[Len(sent)].payload))
    /\ UNCHANGED remote

\* the caller takes the result: the nodes, and endCursor and hasNextPage for
\* the next call (it stops when the call has failed)
TraverseTake ==
    /\ pc = "done"
    /\ walk' = IF outcome.type = "return"
               THEN [walk EXCEPT !.seen = @ \o outcome.value.nodes,
                                 !.cursor = outcome.value.pageInfo.endCursor,
                                 !.more = outcome.value.pageInfo.hasNextPage,
                                 !.started = TRUE]
               ELSE [walk EXCEPT !.more = FALSE, !.started = TRUE]
    /\ pc' = "idle"
    /\ call' = NoCall
    /\ sent' = <<>>
    /\ answered' = 0
    /\ resp' = NoResponse
    /\ locals' = NoLocals
    /\ outcome' = NoOutcome
    /\ UNCHANGED <<other, remote>>

NextTraversal == TraverseCall \/ TraverseAnswer \/ TraverseTake

\* the caller goes on as long as it can, and the remote system answers
SpecTraversal == InitTraversal /\ [][NextTraversal]_vars /\ WF_vars(NextTraversal)

\* what the caller has seen is the start of the collection, in order
SeenIsPrefix ==
    /\ Len(walk.seen) <= Len(walk.items)
    /\ walk.seen = SubSeq(walk.items, 1, Len(walk.seen))

\* the page taken last said hasNextPage = false exactly when it was the last slice
LastPageSaysSo == walk.started => (walk.more <=> walk.seen # walk.items)

\* a result that is back holds the slice that follows what was seen, and no
\* continuation flag unless items remain after it
SliceFollows ==
    pc = "done" =>
        /\ outcome.type = "return"
        /\ Len(outcome.value.nodes) >= 1 \/ walk.items = <<>>
        /\ Len(walk.seen) + Len(outcome.value.nodes) <= Len(walk.items)
        /\ outcome.value.nodes =
              SubSeq(walk.items, Len(walk.seen) + 1, Len(walk.seen) + Len(outcome.value.nodes))
        /\ outcome.value.pageInfo.hasNextPage
              <=> Len(walk.seen) + Len(outcome.value.nodes) < Len(walk.items)

----------------------------------------------------------------------------
(* Paging of the legacy listings *)

ResourceListings ==
    {"list_projects", "list_org_projects", "list_project_columns", "list_org_project_columns",
     "list_project_cards", "list_org_project_cards"}

\* the running invocation is a legacy listing whose arguments parsed
ListingTool ==
    /\ ToolCall
    /\ call.name \in ResourceListings
    /\ Issues(ToolSchema(call.name), call.args) = {}

\* the position of the listing request among the requests of the invocation:
\* the column listings look the project up first (two requests)
ListingAt == IF call.name \in {"list_project_columns", "list_org_project_columns"} THEN 3 ELSE 1

EndsWith(s, p) == Len(s) >= Len(p) /\ SubSeq(s, Len(s) - Len(p) + 1, Len(s)) = p

\* the query parameters a given page size and page number make
PageParams(a) ==
    (IF Opt(a, "per_page").t = "number" THEN "&per_page=" \o ToString(a.per_page.n) ELSE "")
    \o (IF Opt(a, "page").t = "number" THEN "&page=" \o ToString(a.page.n) ELSE "")

\* C17: a legacy listing puts the caller's per_page and page into the url of
\* its request, sends nothing after it, and returns the parsed array of that
\* response and nothing else (no continuation token).
C17_PageForwardedArrayReturned ==
    ListingTool =>
        /\ Len(sent) <= ListingAt
        /\ Len(sent) = ListingAt =>
              /\ sent[ListingAt].method = "GET"
              /\ EndsWith(sent[ListingAt].url, PageParams(call.args))
        /\ (pc = "done" /\ outcome.type = "return") =>
              /\ answered = ListingAt
              /\ resp.body.k = "array"
              /\ outcome.value = [k |-> "text",
                                  json |-> [k |-> "array", items |-> resp.body.items]]

\* page 2 with per_page 10 of the projects of a repository: the two projects
\* of the answer come back
C17_Witness ==
    /\ ListingTool
    /\ call.name = "list_projects"
    /\ Opt(call.args, "per_page") = JsNum(10)
    /\ Opt(call.args, "page") = JsNum(2)
    /\ EndsWith(sent[1].url, "&per_page=10&page=2")
    /\ pc = "done"
    /\ outcome.type = "return"
    /\ Len(outcome.value.json.items) = 2
    /\ outcome.value.json.items = resp.body.items

\* C18 as stated: without per_page from the caller, the request of a legacy
\* listing carries a default page size.
C18_DefaultPerPageSent ==
    (ListingTool /\ Opt(call.args, "per_page") = JsUndef /\ Len(sent) = ListingAt) =>
        Contains(sent[ListingAt].url, "per_page=")

\* C18 amended: without per_page from the caller, the request of a legacy
\* listing carries no per_page parameter at all; the page size is left to the
\* remote system.
C18_NoPerPageSent ==
    (ListingTool /\ Opt(call.args, "per_page") = JsUndef /\ Len(sent) = ListingAt) =>
        ~Contains(sent[ListingAt].url, "per_page")

\* the projects of an organization are listed with a page number and no page size
C18_Witness ==
    /\ ListingTool
    /\ call.name = "list_org_projects"
    /\ Opt(call.args, "per_page") = JsUndef
    /\ Opt(call.args, "page") = JsNum(2)
    /\ Len(sent) = 1
    /\ EndsWith(sent[1].url, "/projects?&page=2")

----------------------------------------------------------------------------
(* Optional fields of the current-model operations *)

\* the optional fields of the call's options that the caller gave
Given(fields) == {f \in fields \cap DOMAIN call.args : call.args[f] # JsUndef}

\* C19: no request of a current-model operation carries null for an input
\* field the caller left out: updateProjectV2 sends projectId and exactly the
\* fields given among title, readme and closed, and the listings and the
\* draft-issue operation send no after, no body, when none was given.
C19_AbsentNeverNull ==
    (call.via = "direct" /\ Len(sent) >= 1) =>
        /\ \A i \in 1..Len(sent) : \A x \in DOMAIN sent[i].payload :
              sent[i].payload[x].t \notin {"null", "undefined"}
        /\ call.name = "updateProjectV2" =>
              /\ DOMAIN sent[1].payload = {"projectId"} \cup Given({"title", "readme", "closed"})
              /\ \A x \in DOMAIN sent[1].payload : sent[1].payload[x] = call.args[x]
        /\ call.name \in V2Listings =>
              ("after" \in DOMAIN sent[1].payload <=> Given({"after"}) = {"after"})
        /\ call.name = "addProjectDraftIssueV2" =>
              DOMAIN sent[1].payload = {"projectId", "title"} \cup Given({"body"})

\* updateProjectV2 is called with a title only: projectId and title are sent
C19_Witness ==
    /\ call.via = "direct"
    /\ call.name = "updateProjectV2"
    /\ call.args.title = JsStr("t")
    /\ call.args.readme = JsUndef
    /\ call.args.closed = JsUndef
    /\ Len(sent) = 1
    /\ sent[1].query = "UpdateProjectV2"
    /\ DOMAIN sent[1].payload = {"projectId", "title"}

----------------------------------------------------------------------------
(* One operation of one model per invocation *)

\* the requests one run of a tool's operation makes when nothing fails: the
\* operations that start from a project number list the projects and fetch
\* the project first
RequestsOf(name) ==
    CASE name \in {"get_project", "get_org_project"} -> 2
      [] name \in {"update_project", "delete_project", "list_project_columns",
                   "create_project_column", "update_org_project", "delete_org_project",
                   "list_org_project_columns", "create_org_project_column"} -> 3
      [] OTHER -> 1

\* the method of the request that does what the tool is named for
MethodOf(name) ==
    CASE StartsWith(name, "list_") \/ StartsWith(name, "get_") -> "GET"
      [] StartsWith(name, "update_") -> "PATCH"
      [] StartsWith(name, "delete_") -> "DELETE"
      [] OTHER -> "POST"

\* C20: an invocation of a board tool makes the requests of one run of its one
\* legacy operation (lookups first, then at most once the request the tool is
\* named for), all to the resource-style endpoints; a current-model operation
\* sends to the query-language endpoint only.  No invocation uses both.
C20_OneModelPerInvocation ==
    /\ ToolCall =>
          /\ Len(sent) <= RequestsOf(call.name)
          /\ \A i \in 1..Len(sent) :
                /\ sent[i].transport = "rest"
                /\ sent[i].method = (IF i = RequestsOf(call.name) THEN MethodOf(call.name)
                                     ELSE "GET")
    /\ call.via = "direct" =>
          \A i \in 1..Len(sent) : sent[i].transport = "graphql" /\ sent[i].url = GraphQLEndpoint

\* update_org_project has listed the projects, fetched the project and sent
\* its one PATCH, all to the resource-style endpoints
C20_Witness ==
    /\ ToolCall
    /\ call.name = "update_org_project"
    /\ Len(sent) = 3
    /\ sent[1].method = "GET"
    /\ sent[2].method = "GET"
    /\ sent[3].method = "PATCH"
    /\ pc = "done"
    /\ outcome.type = "return"

----------------------------------------------------------------------------
(* Shape of the requests *)

\* C21: every request of a current-model operation is a POST to the one
\* query-language endpoint with a query document and its variables, and every
\* request of a legacy board operation carries the preview Accept header.
C21_RequestShapePerTransport ==
    \A i \in 1..Len(sent) :
        /\ call.via = "direct" =>
              /\ sent[i].transport = "graphql"
              /\ sent[i].method = "POST"
              /\ sent[i].url = GraphQLEndpoint
              /\ sent[i].query # ""
              /\ sent[i].accept = ""
        /\ call.via = "handler" =>
              /\ sent[i].transport = "rest"
              /\ sent[i].accept = PreviewAccept
              /\ sent[i].query = ""
              /\ sent[i].url # GraphQLEndpoint

\* delete_project has sent its three requests (two lookups and the DELETE),
\* each with the preview header
C21_Witness ==
    /\ ToolCall
    /\ call.name = "delete_project"
    /\ Len(sent) = 3
    /\ sent[3].method = "DELETE"
    /\ \A i \in 1..3 : sent[i].accept = PreviewAccept

----------------------------------------------------------------------------
(* The project lookup of the legacy operations *)

LookupTools ==
    {"update_project", "delete_project", "list_project_columns", "create_project_column",
     "update_org_project", "delete_org_project", "list_org_project_columns",
     "create_org_project_column"}

\* the running invocation is the call of `tools` with arguments that parsed
ParsedCall(tools) ==
    /\ ToolCall
    /\ call.name \in tools
    /\ Issues(ToolSchema(call.name), call.args) = {}

\* the listing was answered with an array of valid projects, one of them with
\* the number asked for
ListingFinds(r, number) ==
    /\ r.status = 200
    /\ r.body.k = "array"
    /\ \A i \in 1..Len(r.body.items) : r.body.items[i].ok
    /\ \E i \in 1..Len(r.body.items) : r.body.items[i].number = number

\* the request was answered with a valid object
ObjectOk(r) == r.status = 200 /\ r.body.k = "object" /\ r.body.obj.ok

\* the url of the listing a lookup starts with
ListingUrl ==
    IF "org" \in DOMAIN call.args
    THEN "https://api.github.com/orgs/" \o call.args.org.s \o "/projects?"
    ELSE "https://api.github.com/repos/" \o call.args.owner.s \o "/" \o call.args.repo.s
         \o "/projects?"

\* C22: the legacy operations that take a project number list the projects,
\* then fetch the project found by its url, and only then send their own
\* request, to the url of the project fetched; when the listing or the fetch
\* fails the operation ends in an error and its own request is never sent.
C22_LookupThenOwnRequest ==
    ParsedCall(LookupTools) =>
        /\ Len(sent) >= 1
        /\ sent[1].method = "GET" /\ sent[1].url = ListingUrl
        /\ answered = 0 => Len(sent) = 1 /\ pc = "await"
        /\ answered = 1 =>
              IF ListingFinds(resp, call.args.project_number.n)
              THEN /\ Len(sent) = 2 /\ pc = "await"
                   /\ sent[2].method = "GET"
                   /\ sent[2].url =
                         ProjectUrl(FindByNumber(resp.body.items, call.args.project_number.n))
              ELSE Len(sent) = 1 /\ pc = "done" /\ outcome.type = "throw"
        /\ answered = 2 =>
              IF ObjectOk(resp)
              THEN /\ Len(sent) = 3 /\ pc = "await"
                   /\ sent[2].method = "GET"
                   /\ sent[3].method = MethodOf(call.name)
                   /\ StartsWith(sent[3].url, ProjectUrl(resp.body.obj))
              ELSE Len(sent) = 2 /\ pc = "done" /\ outcome.type = "throw"
        /\ answered >= 3 => answered = 3 /\ Len(sent) = 3 /\ pc = "done"

\* update_project found its project in the listing, but fetching it failed
\* with 404: the invocation has ended in an error without a PATCH
C22_Witness ==
    /\ ParsedCall({"update_project"})
    /\ answered = 2
    /\ resp.status = 404
    /\ Len(sent) = 2
    /\ sent[2].method = "GET"
    /\ pc = "done"
    /\ outcome.type = "throw"

\* the listing was answered with an array of valid projects
ListingOk(r) ==
    /\ r.status = 200
    /\ r.body.k = "array"
    /\ \A i \in 1..Len(r.body.items) : r.body.items[i].ok

\* the message of the error thrown when no listed project has the number
NotFoundMessage ==
    "Project number " \o ToString(call.args.project_number.n) \o " not found in "
    \o (IF "org" \in DOMAIN call.args THEN "organization " \o call.args.org.s
        ELSE "repository " \o call.args.owner.s \o "/" \o call.args.repo.s)

\* C23: getProject and getOrgProject send the listing first; when no listed
\* project has the number they fail with the "not found" error and send
\* nothing more; when one has, they send exactly one more request, a GET of
\* that project's url, and return its response once it has passed the schema.
C23_GetProjectByListing ==
    ParsedCall({"get_project", "get_org_project"}) =>
        /\ Len(sent) >= 1
        /\ sent[1].method = "GET" /\ sent[1].url = ListingUrl
        /\ answered = 0 => Len(sent) = 1 /\ pc = "await"
        /\ answered = 1 =>
              CASE ListingFinds(resp, call.args.project_number.n) ->
                     /\ Len(sent) = 2 /\ pc = "await"
                     /\ sent[2].method = "GET"
                     /\ sent[2].url =
                           ProjectUrl(FindByNumber(resp.body.items, call.args.project_number.n))
                [] ListingOk(resp) /\ ~ListingFinds(resp, call.args.project_number.n) ->
                     /\ Len(sent) = 1 /\ pc = "done"
                     /\ outcome = Throw("Error", NotFoundMessage)
                [] OTHER -> Len(sent) = 1 /\ pc = "done" /\ outcome.type = "throw"
        /\ answered >= 2 =>
              /\ answered = 2 /\ Len(sent) = 2 /\ pc = "done"
              /\ IF ObjectOk(resp)
                 THEN outcome = Return([k |-> "text",
                                        json |-> [k |-> "object", obj |-> resp.body.obj]])
                 ELSE outcome.type = "throw"

\* get_org_project asked for project 2 and the listing held only project 1
C23_Witness ==
    /\ ParsedCall({"get_org_project"})
    /\ call.args.project_number = JsNum(2)
    /\ answered = 1
    /\ ListingOk(resp)
    /\ Len(resp.body.items) = 1
    /\ resp.body.items[1].number = 1
    /\ Len(sent) = 1
    /\ pc = "done"
    /\ outcome = Throw("Error", "Project number 2 not found in organization x")

----------------------------------------------------------------------------
(* The legacy operations against a remote system that holds boards: its     *)
(* projects (by number, in listing order) and the columns of project 1.     *)
(* Two invocations may be in flight; a request takes effect remotely when   *)
(* it is answered.                                                          *)

\* the answer of the remote system to a request of a legacy operation, and the
\* boards it holds afterwards: a listing without paging parameters is answered
\* with the first page only; a project or column is fetched, changed or
\* deleted by its url, and a url of nothing that exists is answered 404
RemoteRest(rem, req) ==
    LET Project(n) == [ok |-> TRUE, number |-> n, id |-> 10 * n]
        Body(k, items, obj) == [k |-> k, items |-> items, obj |-> obj]
        Ok(body) == [transport |-> "rest", status |-> 200, body |-> body]
        size == IF Len(rem.projects) < DefaultPage THEN Len(rem.projects) ELSE DefaultPage
        projects == {rem.projects[i] : i \in 1..Len(rem.projects)}
        hitP == {n \in projects : req.url = ProjectUrl(Project(n))}
        hitC == {c \in rem.columns : req.url = ColumnUrl(c)}
    IN  CASE req.method = "GET" /\ req.url = "https://api.github.com/repos/x/x/projects?" ->
               [resp |-> Ok(Body("array", [i \in 1..size |-> Project(rem.projects[i])], BadObj)),
                remote |-> rem]
          [] hitP # {} /\ req.method = "DELETE" ->
               [resp |-> Ok(Body("other", <<>>, BadObj)),
                remote |-> [projects |-> SelectSeq(rem.projects, LAMBDA n : n \notin hitP),
                            columns |-> IF 1 \in hitP THEN {} ELSE rem.columns]]
          [] hitP # {} ->
               [resp |-> Ok(Body("object", <<>>, Project(CHOOSE n \in hitP : TRUE))),
                remote |-> rem]
          [] hitC # {} /\ req.method = "DELETE" ->
               [resp |-> Ok(Body("other", <<>>, BadObj)),
                remote |-> [rem EXCEPT !.columns = @ \ hitC]]
          [] OTHER ->
               [resp |-> [transport |-> "rest", status |-> 404,
                          body |-> Body("other", <<>>, BadObj)],
                remote |-> rem]

\* the remote system holds some projects, and column 1 if it holds project 1
InitRemote ==
    /\ pc = "idle"
    /\ call = NoCall
    /\ sent = <<>>
    /\ answered = 0
    /\ resp = NoResponse
    /\ locals = NoLocals
    /\ outcome = NoOutcome
    /\ other = NoInvocation
    /\ walk = [op |-> "", items |-> <<>>, seen |-> <<>>, cursor |-> JsUndef, more |-> FALSE,
               started |-> FALSE]
    /\ remote \in {[projects |-> q,
                     columns |-> IF \E i \in 1..Len(q) : q[i] = 1 THEN {1} ELSE {}] :
                       q \in {t \in SeqsUpTo(1..MaxNumber, MaxNumber) :
                                \A i, j \in 1..Len(t) : t[i] = t[j] => i = j}}

\* a tool that gets, updates or deletes a project, or deletes a column, is
\* called with the required arguments only
RemoteCalls ==
    /\ pc = "idle"
    /\ \E name \in {"get_project", "update_project", "delete_project", "delete_project_column"} :
          \E a \in ArgumentObjects(ToolSchema(name), 1, 0) :
              /\ \A i \in 1..Len(ToolSchema(name)) :
                    ToolSchema(name)[i].optional => a[ToolSchema(name)[i].name] = JsUndef
              /\ Invoke(name, TRUE, a)

\* the remote system answers the request in flight
RemoteReceive ==
    /\ pc = "await"
    /\ Receive(RemoteRest(remote, sent[Len(sent)]).resp)
    /\ remote' = RemoteRest(remote, sent[Len(sent)]).remote

NextRemote == RemoteCalls \/ RemoteReceive \/ Finished \/ Switch

SpecRemote == InitRemote /\ [][NextRemote]_vars

\* the numbers of the projects the remote system holds
RemoteProjects == {remote.projects[i] : i \in 1..Len(remote.projects)}

\* C24 as stated: getProject succeeds for every project the repository holds,
\* on whatever page of the listing the project is.
C24_EveryExistingProjectFound ==
    (/\ ToolCall
     /\ call.name = "get_project"
     /\ pc = "done"
     /\ call.args.project_number.n \in RemoteProjects) => outcome.type = "return"

----------------------------------------------------------------------------
(* updateProjectV2 with and without fields to update *)

\* C25: updateProjectV2 called with none of title, readme and closed sends one
\* request, the get-project query, and returns the project it reads; called
\* with at least one of them it sends one request, the update mutation, and
\* no get-project query.
C25_UpdateOrRead ==
    (DirectCall("updateProjectV2") /\ Len(sent) >= 1) =>
        /\ answered <= 1
        /\ IF Given({"title", "readme", "closed"}) = {}
           THEN /\ Queries = <<"GetProjectV2">>
                /\ sent[1].payload = ("projectId" :> call.args.projectId)
                /\ pc = "done" =>
                      outcome = getProjectV2([projectId |-> call.args.projectId], 1, locals,
                                             resp).completion
           ELSE /\ Queries = <<"UpdateProjectV2">>
                /\ pc = "done" => outcome = ParsedInner(githubGraphQLRequest(resp))

\* called with the projectId only, it has returned the project the query read
C25_Witness ==
    /\ DirectCall("updateProjectV2")
    /\ Given({"title", "readme", "closed"}) = {}
    /\ Queries = <<"GetProjectV2">>
    /\ pc = "done"
    /\ resp.status = 200
    /\ outcome = Return(resp.body.data.top)

----------------------------------------------------------------------------
(* A node that is missing from the data *)

\* the response carries data (no errors, an envelope that parses) in which the
\* node is null or absent, or, for the two listings, has no connection
NodeMissing(r) ==
    /\ r.status = 200
    /\ GraphQLResponseSchema(r.body)
    /\ ~HasErrors(r.body)
    /\ r.body.data.k = "object"
    /\ \/ r.body.data.top.k # "object"
       \/ call.name # "getProjectV2" /\ r.body.data.inner.k # "object"

\* C26: when the data is not null but the node addressed is (or, for the
\* listings, the node has no fields or items connection), getProjectV2,
\* listProjectFieldsV2 and listProjectItemsV2 fail with their not-found error
\* and return no value.
C26_MissingNodeNotFound ==
    (/\ call.via = "direct"
     /\ call.name \in {"getProjectV2", "listProjectFieldsV2", "listProjectItemsV2"}
     /\ answered = 1
     /\ NodeMissing(resp)) =>
        /\ pc = "done"
        /\ Len(sent) = 1
        /\ outcome =
              Throw("Error",
                    CASE call.name = "getProjectV2" ->
                           "Project V2 with Node ID P1 not found or not accessible."
                      [] call.name = "listProjectFieldsV2" ->
                           "Fields for Project V2 P1 not found or project doesn't exist."
                      [] OTHER ->
                           "Items for Project V2 P1 not found or project doesn't exist.")

\* the node of getProjectV2 came back null
C26_Witness ==
    /\ DirectCall("getProjectV2")
    /\ answered = 1
    /\ NodeMissing(resp)
    /\ resp.body.data.top.k = "null"
    /\ pc = "done"
    /\ outcome.type = "throw"

----------------------------------------------------------------------------
(* When githubGraphQLRequest succeeds *)

\* the transport delivered a body whose envelope parses, whose errors list is
\* absent or empty, and whose data is not null
GoodEnvelope(r) ==
    /\ r.status = 200
    /\ GraphQLResponseSchema(r.body)
    /\ r.body.errors.k = "list" => r.body.errors.list = <<>>
    /\ r.body.data.k # "null"

\* C27: githubGraphQLRequest returns exactly when the envelope parses, the
\* errors list is absent or empty and data is not null, and then it returns
\* the data as it came; an errors list that is present but empty is no failure.
\* deleteProjectV2, which returns as soon as the helper does, shows it.
C27_SucceedsExactlyOnGoodEnvelope ==
    (call.via = "direct" /\ answered >= 1) =>
        /\ githubGraphQLRequest(resp).type = "return" <=> GoodEnvelope(resp)
        /\ GoodEnvelope(resp) => githubGraphQLRequest(resp) = Return(resp.body.data)
        /\ DirectCall("deleteProjectV2") =>
              /\ pc = "done"
              /\ outcome.type = "return" <=> GoodEnvelope(resp)

\* deleteProjectV2 has returned on a response with data and an empty errors list
C27_Witness ==
    /\ DirectCall("deleteProjectV2")
    /\ answered = 1
    /\ resp.status = 200
    /\ resp.body.errors.k = "list"
    /\ resp.body.errors.list = <<>>
    /\ resp.body.data.k = "object"
    /\ pc = "done"
    /\ outcome.type = "return"

----------------------------------------------------------------------------
(* The body of a card move *)

\* C28 as stated: a move puts position in the body, and column_id for every
\* column id the caller supplies, 0 included; column_id is left out only when
\* the caller supplied none.
C28_ColumnIdWheneverSupplied ==
    (ParsedCall({"move_project_card", "move_org_project_card"}) /\ Len(sent) >= 1) =>
        /\ sent[1].method = "POST"
        /\ sent[1].payload["position"] = call.args.position
        /\ IF Opt(call.args, "column_id").t = "number"
           THEN /\ "column_id" \in DOMAIN sent[1].payload
                /\ sent[1].payload["column_id"] = call.args.column_id
           ELSE "column_id" \notin DOMAIN sent[1].payload

----------------------------------------------------------------------------
(* Columns addressed by id, and a project deleted under a running update *)

\* C29 as stated: an operation addressed by a column id acts only on a column
\* of the project the caller names; when that project does not exist or does
\* not own the column (column 1 belongs to project 1), the delete changes
\* nothing remotely, so it is not answered as done.
C29_OnlyOwnColumnDeleted ==
    (/\ ParsedCall({"delete_project_column"})
     /\ call.args.project_number.n # 1
     /\ answered = 1) => resp.status # 200

\* C30 as stated: the PATCH of an updateProject and the DELETE of a
\* deleteProject never reach the remote system for a project that is gone,
\* however another deleteProject is interleaved with the invocation.
C30_NoMutationOfDeletedProject ==
    (/\ ParsedCall({"update_project", "delete_project"})
     /\ answered = 3) => resp.status # 404

====
